---- MODULE Spec2Model ----
(***************************************************************************)
(* The height-field water simulation (water.js: class Water), the vector   *)
(* and ray code (lightgl.js: Vector, Raytracer; the Raytracer of main.js), *)
(* the page start-up (main.js: init), the normal reconstruction of the     *)
(* surface and caustics shaders, and the per-frame driver and pointer      *)
(* drags described in the design document, as state machines.              *)
(*                                                                         *)
(* Real numbers are fixed point: the integer v stands for v / Scale.       *)
(* A texture is a function from texel coordinates to RGBA records          *)
(* (r = height, g = velocity, b = normal.x, a = normal.z).                 *)
(***************************************************************************)
EXTENDS Integers, Sequences, FiniteSets, TLC

\* ------------------------------------------------------------------ bounds
GridN == 3          \* texture width and height, in texels
MaxOps == 3         \* grid operations in one behaviour

\* fixed-point unit; a multiple of 2 * GridN so that texel centres are exact
Scale == 40 * GridN
Half == Scale \div 2

\* ------------------------------------------------------------- arithmetic
Min(a, b) == IF a < b THEN a ELSE b
Max(a, b) == IF a > b THEN a ELSE b

\* a / b rounded to the nearest integer (b > 0)
RoundDiv(a, b) == (2 * a + b) \div (2 * b)

\* fixed-point product and quotient
FMul(a, b) == RoundDiv(a * b, Scale)
FDiv(a, b) == RoundDiv(a * Scale, b)

RECURSIVE SqrtSearch(_, _, _)
SqrtSearch(n, lo, hi) ==
  IF lo >= hi THEN lo
  ELSE LET mid == (lo + hi + 1) \div 2
       IN IF mid * mid <= n THEN SqrtSearch(n, mid, hi)
                            ELSE SqrtSearch(n, lo, mid - 1)

\* floor of the square root of n >= 0
ISqrt(n) ==
  SqrtSearch(n, 0, IF n < 1024 THEN 32 ELSE IF n < 1048576 THEN 1024 ELSE 46340)

\* length of a vector given in fixed point (result in fixed point)
Length2(x, y) == ISqrt(x * x + y * y)
Length3(x, y, z) == ISqrt(x * x + y * y + z * z)

\* cos(d * 3.14159265) for d in [0, 1]: Bhaskara's rational approximation,
\* exact at d = 0, 1/2 and 1 and strictly decreasing in between
CosPi(d) ==
  IF d <= Half
  THEN RoundDiv((Scale * Scale - 4 * d * d) * Scale, Scale * Scale + d * d)
  ELSE 0 - RoundDiv((Scale * Scale - 4 * (Scale - d) * (Scale - d)) * Scale,
                    Scale * Scale + (Scale - d) * (Scale - d))

\* pow(x, 6.0) for x >= 0, saturated at 16 (exp(-16) is 0 at this resolution)
Pow6(x) ==
  IF x >= 2 * Scale THEN 16 * Scale
  ELSE LET x2 == FMul(x, x)
           x4 == FMul(x2, x2)
       IN Min(16 * Scale, FMul(x4, x2))

\* exp(-p) for 0 <= p <= 16, as 1 / (1 + p/8)^8: 1 at p = 0, decreasing
ExpNeg(p) ==
  LET q  == Scale + RoundDiv(p, 8)
      q2 == FMul(q, q)
      q4 == FMul(q2, q2)
      q8 == FMul(q4, q4)
  IN FDiv(Scale, q8)

\* ------------------------------------------------------------------ state
VARIABLES
  textureA,    \* this.textureA: the texture the next operation reads
  textureB,    \* this.textureB: the texture the next operation renders into
  texels,      \* contents of the two GPU textures
  writer,      \* per texel: index of the operation whose fragment wrote it
  hist,        \* the render passes run so far, oldest first
  calls,       \* the Water methods called so far, with their arguments
  rayCall,     \* the last call of a pure function, with its arguments
  rayResult,   \* the value that call returned
  pc,          \* init(): the statement it is waiting at, or "returned"
  backend,     \* what init() found: navigator.gpu and the adapter
  loading,     \* innerHTML of the element with id 'loading'
  created,     \* the GPU objects init() has created
  listeners,   \* the window events init() listens to
  frameRequests, \* animation frame callbacks requested and not yet run
  renders,     \* executions of render()
  depthTextures, \* depth textures created by onResize()
  ratio,       \* init's const ratio, in halves; 0 before it is set
  canvas,      \* canvas.width and canvas.height
  depthTexture, \* init's let depthTexture: its number and size
  frame,       \* what the last render() drew with
  angleX,      \* camera pitch, in thousandths of a degree
  angleY,      \* camera yaw, in thousandths of a degree
  curCenter,   \* the driver's sphere centre
  prevCenter,  \* the centre the water was last coupled to
  sphere,      \* the fields center and radius of the Sphere object
  drag,        \* the drag state and the last pointer move it handled
  tick,        \* the frame tick: position, ticks done, calls of the tick
  caustics,    \* what the last updateCaustics() pass read
  surface      \* what the last renderSurface() draw sampled

waterVars == <<textureA, textureB, texels, writer, hist, calls>>
rayVars == <<rayCall, rayResult>>
pageVars == <<pc, backend, loading, created, listeners, frameRequests,
              renders, depthTextures, ratio, canvas, depthTexture, frame>>
cameraVars == <<angleX, angleY>>
sphereVars == <<curCenter, prevCenter, sphere, drag>>
tickVars == <<tick, caustics, surface>>
appVars == <<pageVars, cameraVars, sphereVars, tickVars>>
vars == <<waterVars, rayVars, appVars>>

TexIds == {"tex1", "tex2"}
Cells == (0 .. GridN - 1) \X (0 .. GridN - 1)
ZeroTexel == [r |-> 0, g |-> 0, b |-> 0, a |-> 0]
ZeroGrid == [c \in Cells |-> ZeroTexel]


\* Water.constructor: this.width, this.height
width == GridN
height == GridN

\* ---------------------------------------------------------------- sampler
\* this.sampler: addressModeU and addressModeV
addressModeRepeat == "repeat"
addressMode == "clamp-to-edge"

\* texel index k along an axis of n texels under an address mode
Address(mode, k, n) ==
  IF mode = "repeat" THEN k % n ELSE Max(0, Min(n - 1, k))

\* linear filter weights applied to the four texels around the sample point
\* (at a texel centre, fx = fy = 0, the weights are 1, 0, 0, 0)
Bilinear(v00, v10, v01, v11, fx, fy) ==
  IF fx = 0 /\ fy = 0 THEN v00 ELSE
  RoundDiv((Scale - fx) * (Scale - fy) * v00 + fx * (Scale - fy) * v10
           + (Scale - fx) * fy * v01 + fx * fy * v11, Scale * Scale)

\* textureSample(waterTexture, waterSampler, uv): magFilter/minFilter linear
textureSample(tex, uv) ==
  LET x  == uv[1] * width - Half
      y  == uv[2] * height - Half
      i0 == x \div Scale
      j0 == y \div Scale
      fx == x - i0 * Scale
      fy == y - j0 * Scale
      T(i, j) == tex[<<Address(addressMode, i, width),
                       Address(addressMode, j, height)>>]
  IN [r |-> Bilinear(T(i0, j0).r, T(i0 + 1, j0).r, T(i0, j0 + 1).r,
                     T(i0 + 1, j0 + 1).r, fx, fy),
      g |-> Bilinear(T(i0, j0).g, T(i0 + 1, j0).g, T(i0, j0 + 1).g,
                     T(i0 + 1, j0 + 1).g, fx, fy),
      b |-> Bilinear(T(i0, j0).b, T(i0 + 1, j0).b, T(i0, j0 + 1).b,
                     T(i0 + 1, j0 + 1).b, fx, fy),
      a |-> Bilinear(T(i0, j0).a, T(i0 + 1, j0).a, T(i0, j0 + 1).a,
                     T(i0 + 1, j0 + 1).a, fx, fy)]

\* ------------------------------------------------- full-screen quad (vs_main)
\* the pos array of vs_main
QuadPos == << <<-1, -1>>, <<1, -1>>, <<-1, 1>>,
              <<-1, 1>>, <<1, -1>>, <<1, 1>> >>

\* pass.draw(6)
drawVertexCountHalf == 6 \div 2
drawVertexCount == 6

\* centre of framebuffer pixel c in normalised device coordinates (y up)
PixelNDC(c) ==
  <<RoundDiv((2 * c[1] + 1) * Scale, width) - Scale,
    Scale - RoundDiv((2 * c[2] + 1) * Scale, height)>>

EdgeFn(p, q, x) ==
  (q[1] - p[1]) * (x[2] - p[2] * Scale) - (q[2] - p[2]) * (x[1] - p[1] * Scale)

\* x lies in the k-th triangle of the vertex stream
InTriangle(k, x) ==
  LET p == QuadPos[3 * k - 2]
      q == QuadPos[3 * k - 1]
      s == QuadPos[3 * k]
      e1 == EdgeFn(p, q, x)
      e2 == EdgeFn(q, s, x)
      e3 == EdgeFn(s, p, x)
  IN \/ (e1 >= 0 /\ e2 >= 0 /\ e3 >= 0)
     \/ (e1 <= 0 /\ e2 <= 0 /\ e3 <= 0)

\* pixel c is rasterised by the draw call
Covered(c) ==
  \E k \in 1 .. (drawVertexCount \div 3) : InTriangle(k, PixelNDC(c))

\* output.uv of vs_main, interpolated at pixel c
FragUV(c) ==
  LET ndc == PixelNDC(c)
  IN <<(ndc[1] + Scale) \div 2, (Scale - ndc[2]) \div 2>>

\* -------------------------------------------------------- fragment shaders
\* struct DropUniforms over the Float32Array written by addDrop
DropUniforms(data) ==
  [center |-> <<data[1], data[2]>>, radius |-> data[3], strength |-> data[4]]

\* struct UpdateUniforms / NormalUniforms
DeltaUniforms(data) == [delta |-> <<data[1], data[2]>>]

\* struct SphereUniforms over the Float32Array written by moveSphere
SphereUniforms(data) ==
  [oldCenter |-> <<data[1], data[2], data[3]>>, radius |-> data[4],
   newCenter |-> <<data[5], data[6], data[7]>>, padding |-> data[8]]

\* world coordinate to UV in the drop shader: u.center * 0.5 + 0.5
WorldToUVUnshifted(w) == RoundDiv(w, 2)
WorldToUV(w) == RoundDiv(w, 2) + Half

\* UV to world coordinate in volumeInSphere: uv * 2.0 - 1.0
UVToWorld(uv) == uv * 2 - Scale

\* dropPipeline fs_main without the max(0.0, ...) around the falloff
DropFSUnclamped(tex, data, uv) ==
  LET u == DropUniforms(data)
      info == textureSample(tex, uv)
      cu == WorldToUV(u.center[1])
      cv == WorldToUV(u.center[2])
      drop == Scale - FDiv(Length2(cu - uv[1], cv - uv[2]), u.radius)
      dropVal == Half - FMul(CosPi(drop), Half)
  IN [info EXCEPT !.r = info.r + FMul(dropVal, u.strength)]

\* dropPipeline fs_main
DropFS(tex, data, uv) ==
  LET u == DropUniforms(data)
      info == textureSample(tex, uv)
      cu == WorldToUV(u.center[1])
      cv == WorldToUV(u.center[2])
      drop == Max(0, Scale - FDiv(Length2(cu - uv[1], cv - uv[2]), u.radius))
      dropVal == Half - FMul(CosPi(drop), Half)
  IN [info EXCEPT !.r = info.r + FMul(dropVal, u.strength)]

\* the damping factor 0.995, in thousandths
DampingPerMille == 995

\* updatePipeline fs_main with the height advanced before the damping
UpdateFSUndamped(tex, data, uv) ==
  LET u == DeltaUniforms(data)
      info == textureSample(tex, uv)
      average == RoundDiv(
          textureSample(tex, <<uv[1] - u.delta[1], uv[2]>>).r
        + textureSample(tex, <<uv[1], uv[2] - u.delta[2]>>).r
        + textureSample(tex, <<uv[1] + u.delta[1], uv[2]>>).r
        + textureSample(tex, <<uv[1], uv[2] + u.delta[2]>>).r, 4)
      g1 == info.g + (average - info.r) * 2
      g2 == RoundDiv(g1 * DampingPerMille, 1000)
  IN [info EXCEPT !.g = g2, !.r = info.r + g1]

\* updatePipeline fs_main with three of the four neighbours in the average
UpdateFSThreeSamples(tex, data, uv) ==
  LET u == DeltaUniforms(data)
      info == textureSample(tex, uv)
      average == RoundDiv(
          textureSample(tex, <<uv[1] - u.delta[1], uv[2]>>).r
        + textureSample(tex, <<uv[1], uv[2] - u.delta[2]>>).r
        + textureSample(tex, <<uv[1] + u.delta[1], uv[2]>>).r, 4)
      g1 == info.g + (average - info.r) * 2
      g2 == RoundDiv(g1 * DampingPerMille, 1000)
  IN [info EXCEPT !.g = g2, !.r = info.r + g2]

\* updatePipeline fs_main
UpdateFS(tex, data, uv) ==
  LET u == DeltaUniforms(data)
      info == textureSample(tex, uv)
      average == RoundDiv(
          textureSample(tex, <<uv[1] - u.delta[1], uv[2]>>).r
        + textureSample(tex, <<uv[1], uv[2] - u.delta[2]>>).r
        + textureSample(tex, <<uv[1] + u.delta[1], uv[2]>>).r
        + textureSample(tex, <<uv[1], uv[2] + u.delta[2]>>).r, 4)
      g1 == info.g + (average - info.r) * 2
      g2 == RoundDiv(g1 * DampingPerMille, 1000)
  IN [info EXCEPT !.g = g2, !.r = info.r + g2]

\* cross(u, v) of two fixed-point vectors
Cross(u, v) ==
  <<FMul(u[2], v[3]) - FMul(u[3], v[2]),
    FMul(u[3], v[1]) - FMul(u[1], v[3]),
    FMul(u[1], v[2]) - FMul(u[2], v[1])>>

\* normalize(v); the zero vector is left as it is
Normalize(v) ==
  LET len == Length3(v[1], v[2], v[3])
  IN IF len = 0 THEN v
     ELSE <<FDiv(v[1], len), FDiv(v[2], len), FDiv(v[3], len)>>

\* normalPipeline fs_main returning the height and the normal only
NormalFSWithoutVelocity(tex, data, uv) ==
  LET u == DeltaUniforms(data)
      info == textureSample(tex, uv)
      val_dx == textureSample(tex, <<uv[1] + u.delta[1], uv[2]>>).r
      val_dy == textureSample(tex, <<uv[1], uv[2] + u.delta[2]>>).r
      dx == <<u.delta[1], val_dx - info.r, 0>>
      dy == <<0, val_dy - info.r, u.delta[2]>>
      normal == Normalize(Cross(dy, dx))
  IN [r |-> info.r, g |-> 0, b |-> normal[1], a |-> normal[3]]

\* normalPipeline fs_main
NormalFS(tex, data, uv) ==
  LET u == DeltaUniforms(data)
      info == textureSample(tex, uv)
      val_dx == textureSample(tex, <<uv[1] + u.delta[1], uv[2]>>).r
      val_dy == textureSample(tex, <<uv[1], uv[2] + u.delta[2]>>).r
      dx == <<u.delta[1], val_dx - info.r, 0>>
      dy == <<0, val_dy - info.r, u.delta[2]>>
      normal == Normalize(Cross(dy, dx))
  IN [info EXCEPT !.b = normal[1], !.a = normal[3]]

\* the last lines of volumeInSphere without the ymin + 2.0 * dy cap
VolumeOfColumnUncapped(cy, dy) ==
  LET ymin == Min(0, cy - dy)
      ymax == Max(0, cy + dy)
  IN RoundDiv(ymax - ymin, 10)

\* the last lines of volumeInSphere: the part below the water surface of the
\* column of half height dy around the centre height cy, times 0.1
VolumeOfColumn(cy, dy) ==
  LET ymin == Min(0, cy - dy)
      ymax == Min(Max(0, cy + dy), ymin + 2 * dy)
  IN RoundDiv(ymax - ymin, 10)

\* volumeInSphere(center, uv, radius)
volumeInSphere(center, uv, radius) ==
  LET px == UVToWorld(uv[1])
      pz == UVToWorld(uv[2])
      dist == Length3(px - center[1], 0 - center[2], pz - center[3])
      t == FDiv(dist, radius)
      dy == ExpNeg(Pow6(FMul(t, 3 * Half)))
  IN VolumeOfColumn(center[2], dy)

\* spherePipeline fs_main adding the volume at newCenter instead of removing it
SphereFSSignSlip(tex, data, uv) ==
  LET u == SphereUniforms(data)
      info == textureSample(tex, uv)
      r1 == info.r + volumeInSphere(u.oldCenter, uv, u.radius)
      r2 == r1 + volumeInSphere(u.newCenter, uv, u.radius)
  IN [info EXCEPT !.r = r2]

\* spherePipeline fs_main without the line that removes the volume at newCenter
SphereFSOneSided(tex, data, uv) ==
  LET u == SphereUniforms(data)
      info == textureSample(tex, uv)
      r1 == info.r + volumeInSphere(u.oldCenter, uv, u.radius)
  IN [info EXCEPT !.r = r1]

\* spherePipeline fs_main
SphereFS(tex, data, uv) ==
  LET u == SphereUniforms(data)
      info == textureSample(tex, uv)
      r1 == info.r + volumeInSphere(u.oldCenter, uv, u.radius)
      r2 == r1 - volumeInSphere(u.newCenter, uv, u.radius)
  IN [info EXCEPT !.r = r2]

\* fs_main of the pipeline created with the given label
fs_main(pipelineObj, tex, data, uv) ==
  CASE pipelineObj = "Drop"   -> DropFS(tex, data, uv)
    [] pipelineObj = "Update" -> UpdateFS(tex, data, uv)
    [] pipelineObj = "Normal" -> NormalFS(tex, data, uv)
    [] pipelineObj = "Sphere" -> SphereFS(tex, data, uv)

\* ------------------------------------------------------------ runPipeline
\* binding 0 of the bind group: the texture the fragment shader samples
ReadBindingScratch == textureB
ReadBinding == textureA

\* the colour attachment of the render pass
RenderTarget == textureB

\* the exchange that ends runPipeline: <<new textureA, new textureB>>
SwapNone == <<textureA, textureB>>
Swap == <<textureB, textureA>>

\* loadOp 'clear' with clearValue 0, then the fragments of the draw call
RenderPass(pipelineObj, tex, data) ==
  [c \in Cells |-> IF Covered(c) THEN fs_main(pipelineObj, tex, data, FragUV(c))
                                 ELSE ZeroTexel]

\* runPipeline(pipelineObj, uniformsData), with the queue's work done in order
runPipeline(pipelineObj, uniformsData) ==
  LET src == ReadBinding
      dst == RenderTarget
      out == RenderPass(pipelineObj, texels[src], uniformsData)
      n   == Len(hist) + 1
  IN /\ texels' = [texels EXCEPT ![dst] = out]
     /\ writer' = [writer EXCEPT ![dst] =
                     [c \in Cells |-> IF Covered(c) THEN n ELSE 0]]
     /\ textureA' = Swap[1]
     /\ textureB' = Swap[2]
     /\ hist' = Append(hist, [op |-> pipelineObj, data |-> uniformsData,
                              src |-> src, dst |-> dst,
                              in |-> texels[src], seen |-> writer[src],
                              out |-> out])

\* ----------------------------------------------------------------- inputs
\* world coordinate (x or z) of the centre of texel column or row i
WorldOfTexel(i) == RoundDiv((2 * i + 1) * Scale, GridN) - Scale

\* addDrop arguments <<x, y, radius, strength>>
DropArgs ==
  { <<WorldOfTexel(0), WorldOfTexel(1), Scale \div 4, Scale>>,
    <<WorldOfTexel(GridN - 1), WorldOfTexel(GridN - 1), Half, 2 * Scale>>,
    <<WorldOfTexel(1), WorldOfTexel(0), Scale, 0 - Half>> }

\* sphere centres <<x, y, z>> and radii
SphereCenters ==
  { <<WorldOfTexel(1), 0, WorldOfTexel(1)>>,
    <<WorldOfTexel(0), 0 - Half, WorldOfTexel(GridN - 1)>> }
SphereRadii == { Scale \div 4, Scale }

\* ---------------------------------------------------------------- actions
addDrop(x, y, radius, strength) ==
  /\ Len(hist) < MaxOps
  /\ runPipeline("Drop", <<x, y, radius, strength>>)
  /\ calls' = Append(calls, <<"addDrop", x, y, radius, strength>>)
  /\ UNCHANGED <<rayVars, appVars>>

stepSimulation ==
  /\ Len(hist) < MaxOps
  /\ runPipeline("Update", <<RoundDiv(Scale, width), RoundDiv(Scale, height)>>)
  /\ calls' = Append(calls, <<"stepSimulation">>)
  /\ UNCHANGED <<rayVars, appVars>>

updateNormals ==
  /\ Len(hist) < MaxOps
  /\ runPipeline("Normal", <<RoundDiv(Scale, width), RoundDiv(Scale, height)>>)
  /\ calls' = Append(calls, <<"updateNormals">>)
  /\ UNCHANGED <<rayVars, appVars>>

moveSphere(oldCenter, newCenter, radius) ==
  /\ Len(hist) < MaxOps
  /\ runPipeline("Sphere", <<oldCenter[1], oldCenter[2], oldCenter[3], radius,
                             newCenter[1], newCenter[2], newCenter[3], 0>>)
  /\ calls' = Append(calls, <<"moveSphere", oldCenter, newCenter, radius>>)
  /\ UNCHANGED <<rayVars, appVars>>

AddDrop == \E d \in DropArgs : addDrop(d[1], d[2], d[3], d[4])
StepSimulation == stepSimulation
UpdateNormals == updateNormals
MoveSphere ==
  \E o \in SphereCenters, n \in SphereCenters, r \in SphereRadii :
    moveSphere(o, n, r)

\* -------------------------------------------------------------- Raytracer
\* Vector
VSub(u, v) == <<u[1] - v[1], u[2] - v[2], u[3] - v[3]>>
VAdd(u, v) == <<u[1] + v[1], u[2] + v[2], u[3] + v[3]>>
VMul(u, k) == <<FMul(u[1], k), FMul(u[2], k), FMul(u[3], k)>>
VDiv(u, k) == <<FDiv(u[1], k), FDiv(u[2], k), FDiv(u[3], k)>>
VDot(u, v) == FMul(u[1], v[1]) + FMul(u[2], v[2]) + FMul(u[3], v[3])

\* Math.sqrt of a fixed-point number
FSqrt(x) == ISqrt(x * Scale)

\* return null
Null == [kind |-> "null"]

\* new HitTest(t, hit, normal)
HitTest(t, hit, normal) ==
  [kind |-> "HitTest", t |-> t, hit |-> hit, normal |-> normal]

\* the test guarding the hit branch of hitTestSphere
DiscriminantHitsTangent(discriminant) == discriminant >= 0
DiscriminantHits(discriminant) == discriminant > 0

\* the same test returning the far intersection (+ sqrt in place of - sqrt)
hitTestSphereFarRoot(origin, ray, center, radius) ==
  LET offset == VSub(origin, center)
      a == VDot(ray, ray)
      b == 2 * VDot(ray, offset)
      c == VDot(offset, offset) - FMul(radius, radius)
      discriminant == FMul(b, b) - 4 * FMul(a, c)
  IN IF DiscriminantHits(discriminant)
     THEN LET t == FDiv((0 - b) + FSqrt(discriminant), 2 * a)
              hit == VAdd(origin, VMul(ray, t))
          IN HitTest(t, hit, VDiv(VSub(hit, center), radius))
     ELSE Null

\* Raytracer.hitTestSphere(origin, ray, center, radius)
hitTestSphere(origin, ray, center, radius) ==
  LET offset == VSub(origin, center)
      a == VDot(ray, ray)
      b == 2 * VDot(ray, offset)
      c == VDot(offset, offset) - FMul(radius, radius)
      discriminant == FMul(b, b) - 4 * FMul(a, c)
  IN IF DiscriminantHits(discriminant)
     THEN LET t == FDiv((0 - b) - FSqrt(discriminant), 2 * a)
              hit == VAdd(origin, VMul(ray, t))
          IN HitTest(t, hit, VDiv(VSub(hit, center), radius))
     ELSE Null

\* inputs of the ray tests: origins <<0, y, z>>, directions, sphere radii
RayRange == 5
RayOrigins ==
  { <<0, y * Scale, z * Scale>> : y \in 0 .. 2, z \in (0 - RayRange) .. RayRange }
RayDirections ==
  { <<0, 0, 0 - Scale>>, <<0, 0, Scale>>, <<0, Scale, 0>>,
    <<0, 0 - (3 * Scale) \div 5, 0 - (4 * Scale) \div 5>> }
HitCenters == { <<0, 0, 0>> }
HitRadii == { Scale, 2 * Scale }

HitTestSphere ==
  \E origin \in RayOrigins, ray \in RayDirections,
     center \in HitCenters, radius \in HitRadii :
    /\ rayCall' = [fn |-> "hitTestSphere", origin |-> origin, ray |-> ray,
                   center |-> center, radius |-> radius]
    /\ rayResult' = hitTestSphere(origin, ray, center, radius)
    /\ UNCHANGED <<waterVars, appVars>>

\* ------------------------------------------------- IEEE special values
\* +Infinity: larger than every finite number of the model
Infinity == Scale * Scale * Scale
\* NaN: a value apart from every number and from both infinities
NaN == 2 * Infinity

\* a / b of two finite numbers, b # 0
Quot(a, b) == IF b > 0 THEN FDiv(a, b) ELSE 0 - FDiv(a, 0 - b)

\* the JavaScript operator a / b on finite numbers
Divide(a, b) ==
  IF b # 0 THEN Quot(a, b)
  ELSE IF a > 0 THEN Infinity
  ELSE IF a < 0 THEN 0 - Infinity
  ELSE NaN

\* x || 0 in the Vector constructor: the falsy numbers 0 and NaN become 0
OrZeroKeepsNaN(x) == x
OrZero(x) == IF x = NaN THEN 0 ELSE x

\* new Vector(x, y, z)
Vector(x, y, z) == <<OrZero(x), OrZero(y), OrZero(z)>>

\* Vector.divide(v) with a Vector argument
VDivV(u, v) ==
  Vector(Divide(u[1], v[1]), Divide(u[2], v[2]), Divide(u[3], v[3]))

\* Vector.min(a, b), Vector.max(a, b), Vector.prototype.max(), min()
VMin(u, v) == Vector(Min(u[1], v[1]), Min(u[2], v[2]), Min(u[3], v[3]))
VMax(u, v) == Vector(Max(u[1], v[1]), Max(u[2], v[2]), Max(u[3], v[3]))
MaxOf(u) == Max(Max(u[1], u[2]), u[3])
MinOf(u) == Min(Min(u[1], u[2]), u[3])

\* epsilon = 1.0e-6 of hitTestBox: the smallest positive amount of the model
epsilon == 1

\* a comparison used as a number: true is 1, false is 0
Num(b) == IF b THEN Scale ELSE 0

\* the test guarding the hit branch of hitTestBox
BoxHitsFromInside(tNear, tFar) == tNear < tFar
BoxHits(tNear, tFar) == tNear > 0 /\ tNear < tFar

\* Raytracer.hitTestBox(origin, ray, min, max)
hitTestBox(origin, ray, min, max) ==
  LET tMin == VDivV(VSub(min, origin), ray)
      tMax == VDivV(VSub(max, origin), ray)
      t1 == VMin(tMin, tMax)
      t2 == VMax(tMin, tMax)
      tNear == MaxOf(t1)
      tFar == MinOf(t2)
  IN IF BoxHits(tNear, tFar)
     THEN LET hit == VAdd(origin, VMul(ray, tNear))
              lo == <<min[1] + epsilon, min[2] + epsilon, min[3] + epsilon>>
              hi == <<max[1] - epsilon, max[2] - epsilon, max[3] - epsilon>>
          IN HitTest(tNear, hit,
                     Vector(Num(hit[1] > hi[1]) - Num(hit[1] < lo[1]),
                            Num(hit[2] > hi[2]) - Num(hit[2] < lo[2]),
                            Num(hit[3] > hi[3]) - Num(hit[3] < lo[3])))
     ELSE Null

\* boxes <<min, max>> tested
Boxes ==
  { << <<0 - Scale, 0 - Scale, 0 - Scale>>, <<Scale, Scale, Scale>> >>,
    << <<0 - Scale, 0 - Scale, 0 - 2 * Scale>>, <<Scale, 2 * Scale, 3 * Scale>> >> }

HitTestBox ==
  \E origin \in RayOrigins, ray \in RayDirections, box \in Boxes :
    /\ rayCall' = [fn |-> "hitTestBox", origin |-> origin, ray |-> ray,
                   min |-> box[1], max |-> box[2]]
    /\ rayResult' = hitTestBox(origin, ray, box[1], box[2])
    /\ UNCHANGED <<waterVars, appVars>>

\* ------------------------------------------------------------ Vector.unit
\* Vector.divide(v) with a number argument
VDivS(u, k) == Vector(Divide(u[1], k), Divide(u[2], k), Divide(u[3], k))

\* Vector.length(): Math.sqrt(this.dot(this))
length(u) == Length3(u[1], u[2], u[3])

\* Vector.unit()
unit(u) == VDivS(u, length(u))

\* the vectors unit() is applied to, the zero vector among them
UnitInputs ==
  { <<x * Half, y * Half, z * Half>> : x, y, z \in -2 .. 2 }

Unit ==
  \E u \in UnitInputs :
    /\ rayCall' = [fn |-> "unit", this |-> u]
    /\ rayResult' = [kind |-> "Vector", v |-> unit(u)]
    /\ UNCHANGED <<waterVars, appVars>>

\* -------------------------------------------------- Raytracer: pixel rays
\* A camera stands for the pair (viewMatrix, projectionMatrix): the eye, the
\* orthonormal axes right, up and forward in world space, the tangents of
\* the half field of view and the distance of the far plane.
CameraAxes ==
  { [right |-> <<Scale, 0, 0>>, up |-> <<0, Scale, 0>>,
     forward |-> <<0, 0, 0 - Scale>>],
    [right |-> <<Scale, 0, 0>>, up |-> <<0, 0, 0 - Scale>>,
     forward |-> <<0, 0 - Scale, 0>>],
    [right |-> <<Scale, 0, 0>>,
     up |-> <<0, (4 * Scale) \div 5, 0 - (3 * Scale) \div 5>>,
     forward |-> <<0, 0 - (3 * Scale) \div 5, 0 - (4 * Scale) \div 5>>] }
Cameras ==
  { [eye |-> <<0, Scale, 4 * Scale>>, right |-> a.right, up |-> a.up,
     forward |-> a.forward, tanX |-> RoundDiv(2 * Scale, 3), tanY |-> Half,
     far |-> 10 * Scale] : a \in CameraAxes }

\* viewports [x, y, width, height], in pixels
Viewports == { <<0, 0, 800, 600>>, <<100, 50, 400, 300>>, <<0, 0, 4, 4>> }

\* vec3.transformMat4(ndc, inverse(projection * view)) for a point of the
\* far plane (ndc z = 1, the only depth unProject is called with): NDC x
\* runs along the camera's right and NDC y along its up
transformMat4(ndc, cam) ==
  LET dir == VAdd(cam.forward,
                  VAdd(VMul(cam.right, FMul(ndc[1], cam.tanX)),
                       VMul(cam.up, FMul(ndc[2], cam.tanY))))
  IN VAdd(cam.eye, VMul(dir, cam.far))

\* (win - origin) / size for pixel coordinates
Fraction(win, origin, size) == RoundDiv((win - origin) * Scale, size)

\* Raytracer.unProject(winX, winY, winZ) of lightgl.js
unProjectNoFlip(cam, v, winX, winY, winZ) ==
  LET x == Fraction(winX, v[1], v[3]) * 2 - Scale
      y == Fraction(winY, v[2], v[4]) * 2 - Scale
  IN transformMat4(<<x, y, winZ>>, cam)
unProject(cam, v, winX, winY, winZ) ==
  LET x == Fraction(winX, v[1], v[3]) * 2 - Scale
      y == (Scale - Fraction(winY, v[2], v[4])) * 2 - Scale
  IN transformMat4(<<x, y, winZ>>, cam)

\* new Raytracer(viewMatrix, projectionMatrix, viewport) of lightgl.js
Raytracer(cam, viewport) ==
  LET minX == viewport[1]
      maxX == minX + viewport[3]
      minY == viewport[2]
      maxY == minY + viewport[4]
  IN [viewport |-> viewport, eye |-> cam.eye,
      ray00 |-> VSub(unProject(cam, viewport, minX, minY, Scale), cam.eye),
      ray10 |-> VSub(unProject(cam, viewport, maxX, minY, Scale), cam.eye),
      ray01 |-> VSub(unProject(cam, viewport, minX, maxY, Scale), cam.eye),
      ray11 |-> VSub(unProject(cam, viewport, maxX, maxY, Scale), cam.eye)]

\* Vector.lerp(a, b, t)
lerpNoSubtract(a, b, t) == VAdd(a, VMul(b, t))
lerp(a, b, t) == VAdd(a, VMul(VSub(b, a), t))

\* Raytracer.getRayForPixel(x, y) of lightgl.js
getRayForPixel(this, x, y) ==
  LET u == Fraction(x, this.viewport[1], this.viewport[3])
      v == Fraction(y, this.viewport[2], this.viewport[4])
      rayTop == lerp(this.ray00, this.ray10, u)
      rayBottom == lerp(this.ray01, this.ray11, u)
  IN unit(lerp(rayTop, rayBottom, v))

\* the Raytracer of main.js: its unProject helper maps winY without a flip
\* and winZ from [0, 1] to [-1, 1]
unProject_main(cam, v, winX, winY, winZ) ==
  LET x == Fraction(winX, v[1], v[3]) * 2 - Scale
      y == Fraction(winY, v[2], v[4]) * 2 - Scale
  IN transformMat4(<<x, y, winZ * 2 - Scale>>, cam)

\* new Raytracer(modelviewMatrix, projectionMatrix, viewport) of main.js
Raytracer_main(cam, viewport) ==
  LET minX == viewport[1]
      maxX == minX + viewport[3]
      minY == viewport[2]
      maxY == minY + viewport[4]
  IN [viewport |-> viewport, eye |-> cam.eye,
      ray00 |-> VSub(unProject_main(cam, viewport, minX, minY, Scale), cam.eye),
      ray10 |-> VSub(unProject_main(cam, viewport, maxX, minY, Scale), cam.eye),
      ray01 |-> VSub(unProject_main(cam, viewport, minX, maxY, Scale), cam.eye),
      ray11 |-> VSub(unProject_main(cam, viewport, maxX, maxY, Scale), cam.eye)]

\* Raytracer.getRayForPixel(x, y) of main.js
getRayForPixel_main(this, x, y) ==
  LET x1 == Fraction(x, this.viewport[1], this.viewport[3])
      y1 == Scale - Fraction(y, this.viewport[2], this.viewport[4])
      ray0 == lerp(this.ray00, this.ray10, x1)
      ray1 == lerp(this.ray01, this.ray11, x1)
  IN unit(lerp(ray0, ray1, y1))

\* the pixels asked for: corners, centre and quarter points of the viewport
Pixels(viewport) ==
  { <<viewport[1] + (i * viewport[3]) \div 4,
      viewport[2] + (j * viewport[4]) \div 4>> : i, j \in {0, 1, 2, 4} }

GetRayForPixel ==
  \E cam \in Cameras, viewport \in Viewports :
    \E p \in Pixels(viewport) :
      LET tracer == Raytracer(cam, viewport)
      IN /\ rayCall' = [fn |-> "getRayForPixel", file |-> "lightgl.js",
                        camera |-> cam, this |-> tracer,
                        x |-> p[1], y |-> p[2]]
         /\ rayResult' = [kind |-> "Vector",
                          v |-> getRayForPixel(tracer, p[1], p[2])]
         /\ UNCHANGED <<waterVars, appVars>>

GetRayForPixel_main ==
  \E cam \in Cameras, viewport \in Viewports :
    \E p \in Pixels(viewport) :
      LET tracer == Raytracer_main(cam, viewport)
      IN /\ rayCall' = [fn |-> "getRayForPixel", file |-> "main.js",
                        camera |-> cam, this |-> tracer,
                        x |-> p[1], y |-> p[2]]
         /\ rayResult' = [kind |-> "Vector",
                          v |-> getRayForPixel_main(tracer, p[1], p[2])]
         /\ UNCHANGED <<waterVars, appVars>>

\* ------------------------------------------- normals read by the renderers
\* sqrt(x) of WGSL: not a number for x < 0
sqrt(x) == IF x < 0 THEN NaN ELSE FSqrt(x)

\* vec3f(info.b, sqrt(max(0.0, 1.0 - info.b*info.b - info.a*info.a)), info.a)
NormalOfInfoUnclamped(info) ==
  <<info.b, sqrt(Scale - FMul(info.b, info.b) - FMul(info.a, info.a)), info.a>>
NormalOfInfo(info) ==
  <<info.b,
    sqrt(Max(0, Scale - FMul(info.b, info.b) - FMul(info.a, info.a))),
    info.a>>

\* the values a sampled texel can hold in its b and a channels
NormalRange == 6
StoredNormals ==
  { [r |-> 0, g |-> 0, b |-> (i * Scale) \div 4, a |-> (j * Scale) \div 4] :
      i, j \in (0 - NormalRange) .. NormalRange }

\* the surface pipeline's fs_main, up to the normal
SurfaceNormal ==
  \E info \in StoredNormals :
    /\ rayCall' = [fn |-> "surface fs_main", info |-> info]
    /\ rayResult' = [kind |-> "Vector", v |-> NormalOfInfo(info)]
    /\ UNCHANGED <<waterVars, appVars>>

\* the caustics pipeline's vs_main, up to the normal
CausticsNormal ==
  \E info \in StoredNormals :
    /\ rayCall' = [fn |-> "caustics vs_main", info |-> info]
    /\ rayResult' = [kind |-> "Vector", v |-> NormalOfInfo(info)]
    /\ UNCHANGED <<waterVars, appVars>>

\* ------------------------------------------------------------ main.js: init
\* the return statements that follow the two messages
ReturnMissing == "requestDevice"
Return == "returned"

\* const gpu = navigator.gpu; if (!gpu) { ...; return; }
InitStart ==
  /\ pc = "start"
  /\ \E gpu \in BOOLEAN :
       IF ~gpu
       THEN /\ backend' = "no gpu"
            /\ loading' = "WebGPU not supported."
            /\ pc' = Return
       ELSE /\ backend' = "gpu"
            /\ loading' = loading
            /\ pc' = "requestAdapter"
  /\ UNCHANGED <<created, listeners, frameRequests, renders, depthTextures>>
  /\ UNCHANGED <<ratio, canvas, depthTexture, frame>>
  /\ UNCHANGED <<waterVars, rayVars, cameraVars, sphereVars, tickVars>>

\* const adapter = await gpu.requestAdapter(); if (!adapter) { ...; return; }
RequestAdapter ==
  /\ pc = "requestAdapter"
  /\ \E adapter \in BOOLEAN :
       IF ~adapter
       THEN /\ backend' = "no adapter"
            /\ loading' = "No WebGPU adapter found."
            /\ pc' = Return
       ELSE /\ backend' = "adapter"
            /\ loading' = loading
            /\ pc' = "requestDevice"
  /\ UNCHANGED <<created, listeners, frameRequests, renders, depthTextures>>
  /\ UNCHANGED <<ratio, canvas, depthTexture, frame>>
  /\ UNCHANGED <<waterVars, rayVars, cameraVars, sphereVars, tickVars>>

\* window.devicePixelRatio in halves (1, 1.5, 2); 0 where it is undefined
DevicePixelRatios == { 0, 2, 3, 4 }

\* window.devicePixelRatio || 1
OrOne(x) == IF x = 0 THEN 2 ELSE x

\* const device = await adapter.requestDevice(); the canvas context is
\* configured and loadTexture('/tiles.jpg') starts to fetch
RequestDevice ==
  /\ pc = "requestDevice"
  /\ created' = created \cup {"device"}
  /\ \E devicePixelRatio \in DevicePixelRatios :
       ratio' = OrOne(devicePixelRatio)
  /\ pc' = "loadTexture"
  /\ UNCHANGED <<backend, loading, listeners, frameRequests, renders,
                 depthTextures, canvas, depthTexture, frame>>
  /\ UNCHANGED <<waterVars, rayVars, cameraVars, sphereVars, tickVars>>

\* <<window.innerWidth, window.innerHeight, help.clientWidth>> at a resize
WindowSizes == { <<345, 200, 300>>, <<61, 41, 0>>, <<46, 33, 5>> }

\* Math.floor(width * ratio) and Math.floor(height * ratio) of onResize
CanvasSize(inner) ==
  << ((inner[1] - inner[3] - 20) * ratio) \div 2, (inner[2] * ratio) \div 2 >>

\* size: [canvas.width, canvas.height] of the depth texture, read after the
\* canvas has been given its new size (or, in the variant, before)
DepthSizeBeforeCanvas(old, new) == old
DepthSize(old, new) == new

\* function render(): the pass draws the pool into the canvas with the
\* depth texture that depthTexture holds
render ==
  /\ frame' = [canvas |-> canvas', depth |-> depthTexture', with |-> created']
  /\ renders' = renders + 1

\* function onResize(): canvas size, old depth texture destroyed, new depth
\* texture, render()
onResize(inner) ==
  /\ canvas' = CanvasSize(inner)
  /\ depthTexture' = [id |-> depthTextures + 1,
                      size |-> DepthSize(canvas, canvas')]
  /\ depthTextures' = depthTextures + 1
  /\ render

\* the rest of init() once the tile image has arrived: texture, sampler,
\* uniform buffer, Pool (buffers and pipeline), the resize listener, the
\* first onResize() with its render(), and the first animation frame request
LoadTexture ==
  /\ pc = "loadTexture"
  /\ created' = created \cup {"tileTexture", "tileSampler", "uniformBuffer",
                                "pool", "depthTexture"}
  /\ listeners' = listeners \cup {"resize"}
  /\ loading' = ""
  /\ \E inner \in WindowSizes : onResize(inner)
  /\ frameRequests' = frameRequests + 1
  /\ pc' = "returned"
  /\ UNCHANGED <<backend, ratio>>
  /\ UNCHANGED <<waterVars, rayVars, cameraVars, sphereVars, tickVars>>

\* renders in one run of the page
MaxRenders == 14

\* function onResize(), called for a resize event of the window
OnResize ==
  /\ "resize" \in listeners
  /\ renders < MaxRenders
  /\ UNCHANGED <<pc, backend, loading, created, listeners, frameRequests,
                 ratio>>
  /\ \E inner \in WindowSizes : onResize(inner)
  /\ UNCHANGED <<waterVars, rayVars, cameraVars, sphereVars, tickVars>>

\* function animate(), called for a requested animation frame
Animate ==
  /\ frameRequests > 0
  /\ renders < MaxRenders
  /\ frameRequests' = (frameRequests - 1) + 1
  /\ UNCHANGED <<pc, backend, loading, created, listeners, depthTextures,
                 ratio, canvas, depthTexture>>
  /\ render
  /\ UNCHANGED <<waterVars, rayVars, cameraVars, sphereVars, tickVars>>

\* ------------------------------------------------- drag: orbiting camera
\* the bound of angleX, in thousandths of a degree (89.999 degrees)
MaxAngleX == 89999

\* angleX = max(-89.999, min(89.999, angleX))
ClampAngleXNone(a) == a
ClampAngleX(a) == Max(0 - MaxAngleX, Min(MaxAngleX, a))

\* pointer movements of one move event, in thousandths of a degree
OrbitDx == { 0, 45000 }
OrbitDy == { 0 - 40000, 10000, 40000 }

\* full turns of the camera about the vertical axis in one behaviour
MaxTurns == 1

\* a pointer move while the drag state is OrbitCamera:
\* angleY -= dx, angleX -= dy, then angleX is clamped
OrbitCamera ==
  \E dx \in OrbitDx, dy \in OrbitDy :
    /\ angleY - dx >= 0 - MaxTurns * 360000
    /\ angleY' = angleY - dx
    /\ angleX' = ClampAngleX(angleX - dy)
    /\ drag' = [mode |-> "OrbitCamera", dx |-> dx, dy |-> dy, from |-> angleX]
    /\ UNCHANGED <<curCenter, prevCenter, sphere>>
    /\ UNCHANGED <<waterVars, rayVars, pageVars, tickVars>>

\* -------------------------------------------------- drag: moving the sphere
\* Sphere.update(center, radius): the fields it assigns (the same four
\* numbers are written to the sphere's uniform buffer)
SphereUpdate(c, radius) == [center |-> c, radius |-> radius]

\* the clamp of the centre to the pool: X and Z to [radius - 1, 1 - radius],
\* Y to [radius - 1, 10]
ClampCenterFloorOnly(c, radius) == <<c[1], Max(radius - Scale, c[2]), c[3]>>
ClampCenter(c, radius) ==
  <<Max(radius - Scale, Min(Scale - radius, c[1])),
    Max(radius - Scale, Min(10 * Scale, c[2])),
    Max(radius - Scale, Min(Scale - radius, c[3]))>>

\* a pointer move while the drag state is MoveSphere: the centre translates
\* by nextHit - prevHit and is clamped; the Sphere object takes the result
dragSphere(delta, radius) ==
  LET moved == VAdd(curCenter, delta)
  IN /\ curCenter' = ClampCenter(moved, radius)
     /\ sphere' = SphereUpdate(curCenter', radius)
     /\ drag' = [mode |-> "MoveSphere", moved |-> moved, radius |-> radius]
     /\ UNCHANGED prevCenter

\* nextHit - prevHit of one move event
DragDeltas ==
  { <<Half, 0, 0>>, <<0, 0 - Half, 0>>, <<0, 0, 0 - Half>>,
    <<5 * Scale, 5 * Scale, 5 * Scale>>,
    <<0 - 5 * Scale, 0 - 5 * Scale, 0 - 5 * Scale>> }

DragSphere ==
  \E delta \in DragDeltas, radius \in SphereRadii :
    /\ dragSphere(delta, radius)
    /\ UNCHANGED <<waterVars, rayVars, pageVars, cameraVars, tickVars>>

\* --------------------------------------------------------- the frame tick
\* binding 3 of the bind group updateCaustics() creates
CausticsBindingStale == textureB
CausticsBinding == textureA

\* the colour attachment of that pass, cleared by loadOp 'clear'
CausticsTargetScratch == textureB
CausticsTarget == "causticsTexture"

\* Water.updateCaustics(): one pass over the water texture bound at the time
\* of the call; the caustics texture is a function of the texels it reads
updateCaustics ==
  /\ caustics' = [read |-> CausticsBinding, input |-> texels[CausticsBinding],
                  after |-> Len(hist)]
  /\ texels' = [t \in TexIds |-> IF t = CausticsTarget THEN ZeroGrid
                                                      ELSE texels[t]]
  /\ calls' = Append(calls, <<"updateCaustics">>)
  /\ UNCHANGED <<textureA, textureB, writer, hist>>

\* binding 6 of the bind group renderSurface() creates; the constructor's
\* surfaceBindGroup holds a view of the texture that was textureA then
SurfaceBindingAtConstruction == "tex1"
SurfaceBinding == textureA

\* Water.renderSurface(passEncoder): the draw samples the water texture of
\* the bind group created in the call
renderSurface ==
  /\ surface' = [read |-> SurfaceBinding, input |-> texels[SurfaceBinding],
                 after |-> Len(hist)]
  /\ UNCHANGED waterVars

RenderSurface ==
  /\ renderSurface
  /\ UNCHANGED <<rayVars, pageVars, cameraVars, sphereVars, tick, caustics>>

\* frame ticks in one behaviour
MaxTicks == 2

\* The tick runs to completion: while it is in progress (tick.pc # "idle")
\* no pointer event is handled.  Its first call, stepSimulation():
TickStepSimulation ==
  /\ tick.pc = "idle"
  /\ tick.count < MaxTicks
  /\ runPipeline("Update", <<RoundDiv(Scale, width), RoundDiv(Scale, height)>>)
  /\ calls' = Append(calls, <<"stepSimulation">>)
  /\ tick' = [tick EXCEPT !.pc = "stepSimulation", !.first = Len(calls),
                          !.moved = (curCenter # prevCenter)]
  /\ UNCHANGED <<rayVars, pageVars, cameraVars, sphereVars, caustics,
                 surface>>

\* the second stepSimulation()
TickStepSimulationAgain ==
  /\ tick.pc = "stepSimulation"
  /\ runPipeline("Update", <<RoundDiv(Scale, width), RoundDiv(Scale, height)>>)
  /\ calls' = Append(calls, <<"stepSimulation">>)
  /\ tick' = [tick EXCEPT !.pc = "updateNormals"]
  /\ UNCHANGED <<rayVars, pageVars, cameraVars, sphereVars, caustics,
                 surface>>

\* updateNormals()
TickUpdateNormals ==
  /\ tick.pc = "updateNormals"
  /\ runPipeline("Normal", <<RoundDiv(Scale, width), RoundDiv(Scale, height)>>)
  /\ calls' = Append(calls, <<"updateNormals">>)
  /\ tick' = [tick EXCEPT !.pc = IF tick.moved THEN "moveSphere"
                                              ELSE "updateCaustics"]
  /\ UNCHANGED <<rayVars, pageVars, cameraVars, sphereVars, caustics,
                 surface>>

\* moveSphere(oldCenter, center, radius), only if the sphere has moved
TickMoveSphere ==
  /\ tick.pc = "moveSphere"
  /\ runPipeline("Sphere", <<prevCenter[1], prevCenter[2], prevCenter[3],
                             sphere.radius,
                             curCenter[1], curCenter[2], curCenter[3], 0>>)
  /\ calls' = Append(calls, <<"moveSphere", prevCenter, curCenter,
                              sphere.radius>>)
  /\ prevCenter' = curCenter
  /\ tick' = [tick EXCEPT !.pc = "updateCaustics"]
  /\ UNCHANGED <<rayVars, pageVars, cameraVars, curCenter, sphere, drag,
                 caustics, surface>>

\* updateCaustics(), which ends the tick
TickUpdateCaustics ==
  /\ tick.pc = "updateCaustics"
  /\ updateCaustics
  /\ tick' = [tick EXCEPT !.pc = "idle", !.count = tick.count + 1]
  /\ UNCHANGED <<rayVars, pageVars, cameraVars, sphereVars, surface>>

\* pointer moves between two ticks that drag the sphere
TickDeltas == { <<Half, 0, 0>>, <<0, 0, 0 - Half>> }

TickDrag ==
  /\ tick.pc = "idle"
  /\ tick.count < MaxTicks
  /\ \E delta \in TickDeltas : dragSphere(delta, Scale \div 4)
  /\ UNCHANGED <<waterVars, rayVars, pageVars, cameraVars, tickVars>>

\* ------------------------------------------------------ HitTest.mergeWith
\* Number.MAX_VALUE: the largest finite number
MAX_VALUE == Infinity - 1

\* a hit or normal that was never assigned
Undefined == << >>

\* new HitTest(): no arguments
NewHitTest == HitTest(MAX_VALUE, Undefined, Undefined)

\* mergeWith taking a result that is not strictly nearer
mergeWithNotStrict(this, other) ==
  IF other.t > 0 /\ other.t <= this.t
  THEN [this EXCEPT !.t = other.t, !.hit = other.hit, !.normal = other.normal]
  ELSE this

\* HitTest.prototype.mergeWith(other): this after the call
mergeWith(this, other) ==
  IF other.t > 0 /\ other.t < this.t
  THEN [this EXCEPT !.t = other.t, !.hit = other.hit, !.normal = other.normal]
  ELSE this

\* results merged into one HitTest
MaxMerges == 3

\* the results of ray tests: behind the origin, at it, in front of it, and
\* the empty new HitTest()
MergeInputs ==
  { HitTest(t, <<x, 0, t>>, <<x, 0, 0>>) :
      t \in {0 - Scale, 0, Half, Scale}, x \in {0 - Scale, Scale} }
    \cup {NewHitTest}

\* var result = new HitTest()
CreateHitTest ==
  /\ rayCall.fn = "none"
  /\ rayCall' = [fn |-> "mergeWith", merged |-> << >>]
  /\ rayResult' = NewHitTest
  /\ UNCHANGED <<waterVars, appVars>>

\* result.mergeWith(other)
MergeWith ==
  /\ rayCall.fn = "mergeWith"
  /\ Len(rayCall.merged) < MaxMerges
  /\ \E other \in MergeInputs :
       /\ rayCall' = [rayCall EXCEPT !.merged = Append(@, other)]
       /\ rayResult' = mergeWith(rayResult, other)
  /\ UNCHANGED <<waterVars, appVars>>

\* -------------------------------------------- the shaders on chosen grids
\* each run applies one shader to one of the inputs below
\* steps from the pool centre to its wall
UVSteps == 5

\* world coordinates of a drop or of the sphere's centre, the walls included
UVWorlds ==
  { 2 * k * (Scale \div (2 * UVSteps)) : k \in (0 - UVSteps) .. UVSteps }
    \cup {0 - Scale, Scale}

\* a drop at (x, z) and the sphere at (x, 0, z) over the still grid
DropAndSphereAt ==
  \E x \in UVWorlds, z \in UVWorlds :
    /\ rayCall.fn = "none"
    /\ rayCall' = [fn |-> "uv", x |-> x, z |-> z]
    /\ rayResult' =
         [kind |-> "uv",
          uv |-> <<WorldToUV(x), WorldToUV(z)>>,
          drop |-> [c \in Cells |->
                     DropFS(ZeroGrid, <<x, z, Half, Scale>>, FragUV(c)).r],
          sphere |-> [c \in Cells |->
                       volumeInSphere(<<x, 0, z>>, FragUV(c), Scale)]]
    /\ UNCHANGED <<waterVars, appVars>>

\* a grid with the same height everywhere and no velocity
FlatHeights == { k * (Scale \div 4) : k \in -4 .. 4 }
FlatGrid(h) == [c \in Cells |-> [r |-> h, g |-> 0, b |-> 0, a |-> 0]]

\* stepSimulation's pass over a flat still grid
PropagateFlat ==
  \E h \in FlatHeights :
    /\ rayCall.fn = "none"
    /\ rayCall' = [fn |-> "Update", h |-> h, in |-> FlatGrid(h)]
    /\ rayResult' =
         [kind |-> "grid",
          out |-> RenderPass("Update", FlatGrid(h),
                             <<RoundDiv(Scale, width), RoundDiv(Scale, height)>>)]
    /\ UNCHANGED <<waterVars, appVars>>

\* centre heights and column half heights dy = exp(...) in (0, 1]
ColumnCenters == { k * Half : k \in {-4, -2, -1, 0, 1, 2, 4} }
ColumnDys == { 1, Half, Scale }

\* the two volumes of one spherePipeline fragment
VolumeInSphere ==
  \E cyOld \in ColumnCenters, cyNew \in ColumnCenters :
    \E dyOld \in ColumnDys, dyNew \in ColumnDys :
      /\ rayCall.fn = "none"
      /\ rayCall' = [fn |-> "volumeInSphere", cyOld |-> cyOld, dyOld |-> dyOld,
                     cyNew |-> cyNew, dyNew |-> dyNew]
      /\ rayResult' = [kind |-> "volumes",
                       old |-> VolumeOfColumn(cyOld, dyOld),
                       new |-> VolumeOfColumn(cyNew, dyNew)]
      /\ UNCHANGED <<waterVars, appVars>>

\* ------------------------------------------------ the drag state machine
\* the sphere radius the driver works with
DriverRadius == Half

\* radius and strength of the drop a ripple injects
RippleRadius == Half
RippleStrength == Scale

\* unit(target - eye): the pick ray of the pixel where target is seen
Toward(eye, target) == unit(VSub(target, eye))

\* the point the camera orbits: the view matrix ends with translate(0, 0.5, 0)
OrbitCentre == <<0, 0 - Half, 0>>

\* eyes at distance 4 of OrbitCentre: from above (angleX at its clamp) and
\* at the initial elevation; centre is the ray through the screen centre
PickEyes ==
  { <<0, 4 * Scale - Half, 0>>, <<0, (6 * Scale) \div 5, (18 * Scale) \div 5>> }

PickCameras == { [eye |-> e, centre |-> Toward(e, OrbitCentre)] : e \in PickEyes }

\* points of the scene seen through the pointer's pixel
PickTargets ==
  { <<0, 0, 0>>, <<Half, 0, Half>>, <<0, Scale, 0>>,
    <<0, 0, 0 - (3 * Scale) \div 2>> }

\* a ray of the 45 degree view frustum of the camera
InView(cam, ray) == 10 * VDot(ray, cam.centre) >= 9 * Scale

\* the distance of the sphere's centre to the line of the ray
LineDistance(eye, ray) ==
  LET along == VDot(VSub(curCenter, eye), ray)
  IN length(VSub(VAdd(eye, VMul(ray, along)), curCenter))

\* the pick rays of the pointer's pixel; pixels on the rim of the sphere,
\* where the rounding of the fixed-point numbers decides the test, are left out
PickRays(cam) ==
  { ray \in { Toward(cam.eye, q) : q \in PickTargets \cup {curCenter} } :
      /\ InView(cam, ray)
      /\ \/ 4 * LineDistance(cam.eye, ray) <= DriverRadius
         \/ LineDistance(cam.eye, ray) >= 2 * DriverRadius }

\* where earlier drags have left the sphere: the centre is clamped to
\* Y <= 10 only
SphereStarts == { <<0, 0, 0>>, <<0, 5 * Scale, 0>> }

\* the point where the line of the ray from eye meets the plane through
\* point with the given normal: t = -normal.(eye - point) / normal.ray;
\* Null for a ray parallel to the plane
RayPlane(eye, ray, point, normal) ==
  IF VDot(normal, ray) = 0 THEN Null
  ELSE LET t == Quot(0 - VDot(normal, VSub(eye, point)), VDot(normal, ray))
       IN [kind |-> "point", p |-> VAdd(eye, VMul(ray, t))]

\* the water plane y = 0
WaterPlane(eye, ray) == RayPlane(eye, ray, <<0, 0, 0>>, <<0, Scale, 0>>)

\* |x| < 1 and |z| < 1
InPool(p) ==
  /\ 0 - Scale < p[1] /\ p[1] < Scale
  /\ 0 - Scale < p[3] /\ p[3] < Scale

\* pointer events handled in one behaviour
MaxEvents == 3

\* pointer events handled so far
Handled == IF "n" \in DOMAIN drag THEN drag.n ELSE 0

\* the drag state after an event: its mode, the event, the mode before
DragState(mode, event) ==
  [mode |-> mode, event |-> event, was |-> drag.mode, n |-> Handled + 1]

\* one ripple: addDrop(x, z, radius, strength)
Ripple(p) ==
  /\ runPipeline("Drop", <<p[1], p[3], RippleRadius, RippleStrength>>)
  /\ calls' = Append(calls, <<"addDrop", p[1], p[3], RippleRadius,
                              RippleStrength>>)

\* pointer-down: the pick ray is tested against the sphere, then against
\* the water plane inside the pool; otherwise the camera is orbited
PointerDown ==
  /\ Handled < MaxEvents
  /\ \E cam \in PickCameras : \E ray \in PickRays(cam) :
       LET sphereHitTest == hitTestSphere(cam.eye, ray, curCenter, DriverRadius)
           pointOnPlane == WaterPlane(cam.eye, ray)
           picked == [cam |-> cam, eye |-> cam.eye, ray |-> ray, center |-> curCenter,
                      radius |-> DriverRadius, before |-> Len(hist)]
       IN IF sphereHitTest.kind = "HitTest"
          THEN /\ drag' = DragState("MoveSphere", "down") @@ picked @@
                          [prevHit |-> sphereHitTest.hit,
                           planeNormal |-> VSub(<<0, 0, 0>>, cam.centre)]
               /\ UNCHANGED waterVars
          ELSE IF pointOnPlane.kind = "point" /\ InPool(pointOnPlane.p)
          THEN /\ drag' = DragState("AddRipple", "down") @@ picked
               /\ Ripple(pointOnPlane.p)
          ELSE /\ drag' = DragState("OrbitCamera", "down") @@ picked
               /\ UNCHANGED waterVars
  /\ UNCHANGED <<curCenter, prevCenter, sphere>>
  /\ UNCHANGED <<rayVars, pageVars, cameraVars, tickVars>>

\* pointer-move while Idle: nothing is dragged
MoveIdle ==
  /\ drag.mode = "Idle"
  /\ drag' = DragState("Idle", "move")
  /\ UNCHANGED <<waterVars, cameraVars, curCenter, prevCenter, sphere>>

\* pointer-move while OrbitCamera
MoveOrbit ==
  /\ drag.mode = "OrbitCamera"
  /\ \E dx \in OrbitDx, dy \in OrbitDy :
       /\ angleY' = angleY - dx
       /\ angleX' = ClampAngleX(angleX - dy)
       /\ drag' = DragState("OrbitCamera", "move") @@ [cam |-> drag.cam, eye |-> drag.eye]
  /\ UNCHANGED <<waterVars, curCenter, prevCenter, sphere>>

\* pointer-move while MoveSphere: the new pick ray meets the drag plane at
\* nextHit and the centre follows, clamped; a degenerate ray is skipped
MoveSphereDrag ==
  /\ drag.mode = "MoveSphere"
  /\ \E ray \in PickRays(drag.cam) :
       LET nextHit == RayPlane(drag.eye, ray, drag.prevHit, drag.planeNormal)
           kept == [cam |-> drag.cam, eye |-> drag.eye, planeNormal |-> drag.planeNormal]
       IN IF nextHit.kind = "point"
          THEN LET moved == VAdd(curCenter, VSub(nextHit.p, drag.prevHit))
               IN /\ curCenter' = ClampCenter(moved, DriverRadius)
                  /\ sphere' = SphereUpdate(curCenter', DriverRadius)
                  /\ drag' = DragState("MoveSphere", "move") @@ kept @@
                             [prevHit |-> nextHit.p, moved |-> moved,
                              radius |-> DriverRadius]
          ELSE /\ drag' = DragState("MoveSphere", "move") @@ kept @@
                          [prevHit |-> drag.prevHit, moved |-> curCenter,
                           radius |-> DriverRadius]
               /\ UNCHANGED <<curCenter, sphere>>
  /\ UNCHANGED <<waterVars, cameraVars, prevCenter>>

\* pointer-move while AddRipple: another drop if the ray still meets the
\* water inside the pool
MoveRipple ==
  /\ drag.mode = "AddRipple"
  /\ \E ray \in PickRays(drag.cam) :
       LET pointOnPlane == WaterPlane(drag.eye, ray)
       IN /\ drag' = DragState("AddRipple", "move") @@ [cam |-> drag.cam, eye |-> drag.eye]
          /\ IF pointOnPlane.kind = "point" /\ InPool(pointOnPlane.p)
             THEN Ripple(pointOnPlane.p)
             ELSE UNCHANGED waterVars
  /\ UNCHANGED <<cameraVars, curCenter, prevCenter, sphere>>

PointerMove ==
  /\ Handled < MaxEvents
  /\ MoveIdle \/ MoveOrbit \/ MoveSphereDrag \/ MoveRipple
  /\ UNCHANGED <<rayVars, pageVars, tickVars>>

\* the drag mode a pointer-up leaves
ModeAfterUpKeepsOrbit(mode) == IF mode = "OrbitCamera" THEN mode ELSE "Idle"
ModeAfterUp(mode) == "Idle"

PointerUp ==
  /\ Handled < MaxEvents
  /\ drag' = DragState(ModeAfterUp(drag.mode), "up")
  /\ UNCHANGED <<waterVars, rayVars, pageVars, cameraVars, tickVars>>
  /\ UNCHANGED <<curCenter, prevCenter, sphere>>

\* --------------------------------------------------------- specifications
\* let angleX = -25; let angleY = -200.5;
InitialAngleX == 0 - 25000
InitialAngleY == 0 - 200500

\* the state once the page's script has been loaded: two zero-initialised
\* water textures, a Sphere as its constructor leaves it, no call made yet
Init ==
  /\ textureA = "tex1"
  /\ textureB = "tex2"
  /\ texels = [t \in TexIds |-> ZeroGrid]
  /\ writer = [t \in TexIds |-> [c \in Cells |-> 0]]
  /\ hist = << >>
  /\ calls = << >>
  /\ rayCall = [fn |-> "none"]
  /\ rayResult = [kind |-> "none"]
  /\ pc = "start"
  /\ backend = "unknown"
  /\ loading = "Loading..."
  /\ created = {}
  /\ listeners = {}
  /\ frameRequests = 0
  /\ renders = 0
  /\ depthTextures = 0
  /\ ratio = 0
  /\ canvas = <<300, 150>>
  /\ depthTexture = [id |-> 0, size |-> << >>]
  /\ frame = [canvas |-> << >>, depth |-> [id |-> 0, size |-> << >>],
              with |-> {}]
  /\ angleX = InitialAngleX
  /\ angleY = InitialAngleY
  /\ curCenter = <<0, 0, 0>>
  /\ prevCenter = <<0, 0, 0>>
  /\ sphere = [center |-> <<0, 0, 0>>, radius |-> Scale]
  /\ drag = [mode |-> "Idle"]
  /\ tick = [pc |-> "idle", count |-> 0, first |-> 0, moved |-> FALSE]
  /\ caustics = [read |-> "none"]
  /\ surface = [read |-> "none"]

\* the grid operations of Water
Next == AddDrop \/ StepSimulation \/ UpdateNormals \/ MoveSphere

Spec == Init /\ [][Next]_vars

\* the static ray tests of Raytracer
NextRay == HitTestSphere \/ HitTestBox

SpecRay == Init /\ [][NextRay]_vars

\* picking rays: the Raytracer of lightgl.js and the one of main.js
NextPick == GetRayForPixel \/ GetRayForPixel_main

SpecPick == Init /\ [][NextPick]_vars

\* the normal reconstruction of the surface and caustics shaders
NextNormal == SurfaceNormal \/ CausticsNormal

SpecNormal == Init /\ [][NextNormal]_vars

\* the page: init() and the callbacks it registers
NextPage ==
  InitStart \/ RequestAdapter \/ RequestDevice \/ LoadTexture
    \/ OnResize \/ Animate

SpecPage == Init /\ [][NextPage]_vars

\* dragging the camera around the pool
NextOrbit == OrbitCamera

SpecOrbit == Init /\ [][NextOrbit]_vars

\* dragging the sphere through the pool
NextDrag == DragSphere

SpecDrag == Init /\ [][NextDrag]_vars

\* frame ticks, with the sphere dragged between them
NextTick ==
  TickStepSimulation \/ TickStepSimulationAgain \/ TickUpdateNormals
    \/ TickMoveSphere \/ TickUpdateCaustics \/ TickDrag

SpecTick == Init /\ [][NextTick]_vars

\* drops and steps of the grid with draws of the surface between them
NextSurface == AddDrop \/ StepSimulation \/ RenderSurface

SpecSurface == Init /\ [][NextSurface]_vars

\* the fragment shaders on chosen grids
NextShader == DropAndSphereAt \/ PropagateFlat \/ VolumeInSphere

SpecShader == Init /\ [][NextShader]_vars

\* results merged into a new HitTest
NextMerge == CreateHitTest \/ MergeWith

SpecMerge == Init /\ [][NextMerge]_vars

\* the pointer events of the drag state machine
NextPointer == PointerDown \/ PointerMove \/ PointerUp

InitPointer ==
  /\ textureA = "tex1"
  /\ textureB = "tex2"
  /\ texels = [t \in TexIds |-> ZeroGrid]
  /\ writer = [t \in TexIds |-> [c \in Cells |-> 0]]
  /\ hist = << >>
  /\ calls = << >>
  /\ rayCall = [fn |-> "none"]
  /\ rayResult = [kind |-> "none"]
  /\ pc = "start"
  /\ backend = "unknown"
  /\ loading = "Loading..."
  /\ created = {}
  /\ listeners = {}
  /\ frameRequests = 0
  /\ renders = 0
  /\ depthTextures = 0
  /\ ratio = 0
  /\ canvas = <<300, 150>>
  /\ depthTexture = [id |-> 0, size |-> << >>]
  /\ frame = [canvas |-> << >>, depth |-> [id |-> 0, size |-> << >>],
              with |-> {}]
  /\ angleX = InitialAngleX
  /\ angleY = InitialAngleY
  /\ curCenter \in SphereStarts
  /\ prevCenter = curCenter
  /\ sphere = SphereUpdate(curCenter, DriverRadius)
  /\ drag = [mode |-> "Idle"]
  /\ tick = [pc |-> "idle", count |-> 0, first |-> 0, moved |-> FALSE]
  /\ caustics = [read |-> "none"]
  /\ surface = [read |-> "none"]

SpecPointer == InitPointer /\ [][NextPointer]_vars

\* the operations of Vector
NextVector == Unit

SpecVector == Init /\ [][NextVector]_vars

\* ============================================================== claims
\* ----------------------------------------------------------------------
\* C1: in every grid operation (addDrop, stepSimulation, updateNormals,
\* moveSphere) the texture that is read and the texture that is rendered
\* into are two different textures, and the two references never alias.
C1_ReadWriteDistinct ==
  /\ textureA # textureB
  /\ \A k \in 1 .. Len(hist) : hist[k].src # hist[k].dst

C1_Witness ==
  /\ Len(hist) >= 3
  /\ Cardinality({hist[k].op : k \in 1 .. Len(hist)}) >= 3
  /\ hist[1].src = hist[2].dst
  /\ hist[1].src # hist[1].dst

\* ----------------------------------------------------------------------
\* C2: every grid operation ends with exactly one exchange of the two
\* references and copies no data: after k operations textureA is the
\* initially current texture when k is even and the other one when k is odd,
\* the references denote the two textures made by the constructor, the
\* texture just read still holds what was read and the texture just written
\* holds the pass's output.
C2_SwapParity ==
  /\ textureA = (IF Len(hist) % 2 = 0 THEN "tex1" ELSE "tex2")
  /\ textureB = (IF Len(hist) % 2 = 0 THEN "tex2" ELSE "tex1")
  /\ {textureA, textureB} = TexIds
  /\ Len(calls) = Len(hist)
  /\ Len(hist) > 0 =>
       LET h == hist[Len(hist)]
       IN /\ texels[h.src] = h.in
          /\ texels[h.dst] = h.out
          /\ textureA = h.dst
          /\ textureB = h.src

C2_Witness ==
  /\ Len(hist) >= 3
  /\ textureA = "tex2"
  /\ texels[textureA] # texels[textureB]
  /\ hist[2].dst = "tex1"

\* ----------------------------------------------------------------------
\* C3: the input of operation N+1 is exactly the complete output of
\* operation N: every texel it reads was written by a fragment of operation
\* N, and the texture that is current after N operations holds only texels
\* written by operation N.
C3_ProducerConsumer ==
  /\ \A k \in 1 .. Len(hist) :
       /\ hist[k].in = (IF k = 1 THEN ZeroGrid ELSE hist[k - 1].out)
       /\ \A c \in Cells : hist[k].seen[c] = k - 1
  /\ \A c \in Cells : writer[textureA][c] = Len(hist)
  /\ Len(hist) > 0 => texels[textureA] = hist[Len(hist)].out

C3_Witness ==
  /\ Len(hist) >= 3
  /\ hist[2].in # ZeroGrid
  /\ hist[3].in # hist[2].in
  /\ hist[3].in = hist[2].out
  /\ \A c \in Cells : hist[3].seen[c] = 2

\* ----------------------------------------------------------------------
\* C4: moveSphere(c, c, r) leaves the height of every cell unchanged, for
\* every centre c and radius r.
C4_SphereIdempotent ==
  \A k \in 1 .. Len(hist) :
    (calls[k][1] = "moveSphere" /\ calls[k][2] = calls[k][3]) =>
      \A c \in Cells : hist[k].out[c].r = hist[k].in[c].r

C4_Witness ==
  \E k \in 1 .. Len(hist) :
    /\ calls[k][1] = "moveSphere"
    /\ calls[k][2] = calls[k][3]
    /\ \E c \in Cells : hist[k].in[c].r # 0
    /\ \E c \in Cells : volumeInSphere(calls[k][2], FragUV(c), calls[k][4]) > 0
    /\ \A c \in Cells : hist[k].out[c].r = hist[k].in[c].r

\* ----------------------------------------------------------------------
\* C5: moveSphere(a, b, r) adds volume(a) - volume(b) to the height of each
\* cell, so moveSphere(a, b, r) followed by moveSphere(b, a, r) restores the
\* height of every cell to its value before the first call.
C5_SphereRoundTrip ==
  /\ \A k \in 1 .. Len(hist) :
       calls[k][1] = "moveSphere" =>
         \A c \in Cells :
           hist[k].out[c].r - hist[k].in[c].r =
               volumeInSphere(calls[k][2], FragUV(c), calls[k][4])
             - volumeInSphere(calls[k][3], FragUV(c), calls[k][4])
  /\ \A k \in 1 .. Len(hist) - 1 :
       ( /\ calls[k][1] = "moveSphere"
         /\ calls[k + 1] = <<"moveSphere", calls[k][3], calls[k][2], calls[k][4]>> )
       => \A c \in Cells : hist[k + 1].out[c].r = hist[k].in[c].r

C5_Witness ==
  \E k \in 1 .. Len(hist) - 1 :
    /\ calls[k][1] = "moveSphere"
    /\ calls[k][2] # calls[k][3]
    /\ calls[k + 1] = <<"moveSphere", calls[k][3], calls[k][2], calls[k][4]>>
    /\ \E c \in Cells : hist[k].in[c].r # 0
    /\ \E c \in Cells : hist[k].out[c].r # hist[k].in[c].r
    /\ \A c \in Cells : hist[k + 1].out[c].r = hist[k].in[c].r

\* ----------------------------------------------------------------------
\* C6: addDrop(x, y, r, s) on a grid whose heights are all zero gives a
\* height that is zero at every cell at distance r or more (in UV space)
\* from the drop centre, the UV image of (x, y), and strictly positive at the
\* cell lying at the centre when s > 0.
C6_DropLocality ==
  \A k \in 1 .. Len(hist) :
    ( /\ calls[k][1] = "addDrop"
      /\ \A c \in Cells : hist[k].in[c].r = 0 ) =>
      LET cu == (calls[k][2] + Scale) \div 2
          cv == (calls[k][3] + Scale) \div 2
          r  == calls[k][4]
          s  == calls[k][5]
          U(i) == ((2 * i + 1) * Scale) \div (2 * GridN)
          D2(c) == (U(c[1]) - cu) * (U(c[1]) - cu) + (U(c[2]) - cv) * (U(c[2]) - cv)
      IN \A c \in Cells :
           /\ D2(c) >= r * r => hist[k].out[c].r = 0
           /\ (s > 0 /\ D2(c) = 0) => hist[k].out[c].r > 0

C6_Witness ==
  \E k \in 1 .. Len(hist) :
    /\ calls[k][1] = "addDrop"
    /\ calls[k][5] > 0
    /\ \A c \in Cells : hist[k].in[c].r = 0
    /\ LET cu == (calls[k][2] + Scale) \div 2
           cv == (calls[k][3] + Scale) \div 2
           U(i) == ((2 * i + 1) * Scale) \div (2 * GridN)
           D2(c) == (U(c[1]) - cu) * (U(c[1]) - cu) + (U(c[2]) - cv) * (U(c[2]) - cv)
       IN /\ \E c \in Cells : D2(c) = 0 /\ hist[k].out[c].r = calls[k][5]
          /\ \E c \in Cells : D2(c) >= calls[k][4] * calls[k][4] /\ hist[k].out[c].r = 0
          /\ \E c \in Cells : D2(c) > 0 /\ hist[k].out[c].r > 0

\* ----------------------------------------------------------------------
\* C7: one stepSimulation computes, for every cell and from the texture that
\* was current only: average = mean of the heights of the 4 axis neighbours
\* (an off-grid neighbour being the edge cell itself);
\* velocity' = (velocity + (average - height) * 2) * 0.995;
\* height' = height + velocity'; the normal channels are copied.
C7_PropagateStep ==
  \A k \in 1 .. Len(hist) :
    calls[k][1] = "stepSimulation" =>
      \A c \in Cells :
        LET old == hist[k].in
            K(i) == IF i < 0 THEN 0 ELSE IF i > GridN - 1 THEN GridN - 1 ELSE i
            H(i, j) == old[<<K(i), K(j)>>].r
            sum == H(c[1] - 1, c[2]) + H(c[1] + 1, c[2])
                   + H(c[1], c[2] - 1) + H(c[1], c[2] + 1)
            average == (2 * sum + 4) \div 8
            v0 == old[c].g + (average - old[c].r) * 2
            v1 == (2 * v0 * 995 + 1000) \div 2000
        IN /\ hist[k].out[c].g = v1
           /\ hist[k].out[c].r = old[c].r + v1
           /\ hist[k].out[c].b = old[c].b
           /\ hist[k].out[c].a = old[c].a

C7_Witness ==
  \E k \in 1 .. Len(hist) :
    /\ calls[k][1] = "stepSimulation"
    /\ \E c \in Cells : hist[k].in[c].g # 0
    /\ \E c \in Cells :
         LET old == hist[k].in
             K(i) == IF i < 0 THEN 0 ELSE IF i > GridN - 1 THEN GridN - 1 ELSE i
             H(i, j) == old[<<K(i), K(j)>>].r
             sum == H(c[1] - 1, c[2]) + H(c[1] + 1, c[2])
                    + H(c[1], c[2] - 1) + H(c[1], c[2] + 1)
             v0 == old[c].g + ((2 * sum + 4) \div 8 - old[c].r) * 2
         IN /\ sum # 0
            /\ hist[k].out[c].g # v0
            /\ hist[k].out[c].g # 0
            /\ hist[k].out[c].r = old[c].r + hist[k].out[c].g
            /\ hist[k].out[c].r # old[c].r + v0

\* ----------------------------------------------------------------------
\* C8: stepSimulation and updateNormals take a neighbour that falls outside
\* the grid from the nearest edge cell, never from the opposite edge: when
\* the texture read is zero everywhere except on one edge, every cell of the
\* opposite edge is unchanged by the operation; and updateNormals finds a zero
\* slope across the last column and across the last row.
C8_ClampedEdges ==
  \A k \in 1 .. Len(hist) :
    calls[k][1] \in {"stepSimulation", "updateNormals"} =>
      LET old == hist[k].in
          new == hist[k].out
          Edge(axis, at) == {c \in Cells : c[axis] = at}
          Quiet(e) == \A c \in Cells \ e : old[c] = ZeroTexel
          Kept(e) == \A c \in e : new[c] = old[c]
      IN /\ \A axis \in {1, 2} :
              /\ Quiet(Edge(axis, 0)) => Kept(Edge(axis, GridN - 1))
              /\ Quiet(Edge(axis, GridN - 1)) => Kept(Edge(axis, 0))
         /\ calls[k][1] = "updateNormals" =>
              /\ \A c \in Edge(1, GridN - 1) : new[c].b = 0
              /\ \A c \in Edge(2, GridN - 1) : new[c].a = 0

C8_Witness ==
  \E k \in 1 .. Len(hist) :
    /\ calls[k][1] = "stepSimulation"
    /\ \A c \in Cells : c[1] # 0 => hist[k].in[c] = ZeroTexel
    /\ \E c \in Cells : c[1] = 0 /\ hist[k].in[c].r # 0
    /\ \E c \in Cells : c[1] = 1 /\ hist[k].out[c].r # 0
    /\ \A c \in Cells : c[1] = GridN - 1 => hist[k].out[c] = ZeroTexel

\* ----------------------------------------------------------------------
\* C9: whenever hitTestSphere reports a hit, the returned t is greater than 0
\* and is the smaller of the two roots of |origin + t*ray - center|^2 =
\* radius^2; a sphere entirely behind the ray origin is not reported as a hit.
C9_NearestPositiveRoot ==
  rayCall.fn = "hitTestSphere" =>
    LET offset == VSub(rayCall.origin, rayCall.center)
        a == VDot(rayCall.ray, rayCall.ray)
        b == 2 * VDot(rayCall.ray, offset)
        c == VDot(offset, offset) - FMul(rayCall.radius, rayCall.radius)
        discriminant == FMul(b, b) - 4 * FMul(a, c)
        \* every point p of the sphere has ray . (p - origin) < 0
        behind == /\ b > 0
                  /\ VDot(rayCall.ray, offset) > FMul(rayCall.radius, FSqrt(a))
    IN /\ rayResult.kind = "HitTest" =>
            /\ rayResult.t > 0
            /\ rayResult.t <= FDiv((0 - b) + FSqrt(discriminant), 2 * a)
       /\ behind => rayResult = Null

\* ----------------------------------------------------------------------
\* C10: hitTestSphere returns null, a plain value and not an error, whenever
\* the discriminant b^2 - 4ac is less than or equal to 0, the tangent case
\* b^2 - 4ac = 0 included.
C10_NoHitUnlessDiscriminantPositive ==
  rayCall.fn = "hitTestSphere" =>
    LET offset == VSub(rayCall.origin, rayCall.center)
        a == VDot(rayCall.ray, rayCall.ray)
        b == 2 * VDot(rayCall.ray, offset)
        c == VDot(offset, offset) - FMul(rayCall.radius, rayCall.radius)
    IN FMul(b, b) - 4 * FMul(a, c) <= 0 => rayResult = Null

C10_Witness ==
  /\ rayCall.fn = "hitTestSphere"
  /\ rayResult = Null
  /\ LET offset == VSub(rayCall.origin, rayCall.center)
         a == VDot(rayCall.ray, rayCall.ray)
         b == 2 * VDot(rayCall.ray, offset)
         c == VDot(offset, offset) - FMul(rayCall.radius, rayCall.radius)
     IN /\ FMul(b, b) - 4 * FMul(a, c) = 0
        /\ b # 0

\* ----------------------------------------------------------------------
\* C11: a hit reported by hitTestSphere has hit = origin + t * ray and
\* normal = (hit - center) / radius; for origin (0,0,5), ray (0,0,-1),
\* center (0,0,0) and radius 1 the result is t = 4, hit = (0,0,1) and
\* normal = (0,0,1).
C11_SphereHitPointAndNormal ==
  (rayCall.fn = "hitTestSphere" /\ rayResult.kind = "HitTest") =>
    /\ rayResult.hit = VAdd(rayCall.origin, VMul(rayCall.ray, rayResult.t))
    /\ rayResult.normal =
         VDiv(VSub(rayResult.hit, rayCall.center), rayCall.radius)
    /\ ( /\ rayCall.origin = <<0, 0, 5 * Scale>>
         /\ rayCall.ray = <<0, 0, 0 - Scale>>
         /\ rayCall.center = <<0, 0, 0>>
         /\ rayCall.radius = Scale )
       => /\ rayResult.t = 4 * Scale
          /\ rayResult.hit = <<0, 0, Scale>>
          /\ rayResult.normal = <<0, 0, Scale>>

C11_Witness ==
  /\ rayCall.fn = "hitTestSphere"
  /\ rayCall.origin = <<0, 0, 5 * Scale>>
  /\ rayCall.ray = <<0, 0, 0 - Scale>>
  /\ rayCall.center = <<0, 0, 0>>
  /\ rayCall.radius = Scale
  /\ rayResult.kind = "HitTest"

\* ----------------------------------------------------------------------
\* C12: hitTestBox takes tNear as the largest over the three axes of the
\* smaller slab parameter and tFar as the smallest of the larger ones; it
\* reports a hit exactly when 0 < tNear < tFar, so a ray that starts inside
\* the box gets no hit, and the t it reports is tNear.
C12_SlabTest ==
  rayCall.fn = "hitTestBox" =>
    LET o == rayCall.origin
        d == rayCall.ray
        slabLo(i) == Min(OrZero(Divide(rayCall.min[i] - o[i], d[i])),
                         OrZero(Divide(rayCall.max[i] - o[i], d[i])))
        slabHi(i) == Max(OrZero(Divide(rayCall.min[i] - o[i], d[i])),
                         OrZero(Divide(rayCall.max[i] - o[i], d[i])))
        tNear == CHOOSE t \in {slabLo(i) : i \in 1 .. 3} :
                   \A i \in 1 .. 3 : slabLo(i) <= t
        tFar == CHOOSE t \in {slabHi(i) : i \in 1 .. 3} :
                  \A i \in 1 .. 3 : t <= slabHi(i)
        inside == \A i \in 1 .. 3 :
                    rayCall.min[i] < o[i] /\ o[i] < rayCall.max[i]
    IN /\ (rayResult.kind = "HitTest") <=> (0 < tNear /\ tNear < tFar)
       /\ rayResult.kind = "HitTest" => rayResult.t = tNear
       /\ inside => rayResult = Null

C12_Witness ==
  /\ rayCall.fn = "hitTestBox"
  /\ rayCall.origin = <<0, 0, 5 * Scale>>
  /\ rayCall.ray = <<0, 0, 0 - Scale>>
  /\ rayCall.max = <<Scale, Scale, Scale>>
  /\ rayResult = HitTest(4 * Scale, <<0, 0, Scale>>, <<0, 0, Scale>>)

\* ----------------------------------------------------------------------
\* the direction from the eye through the far-plane point that lies sx
\* half-widths to the right and sy half-heights up (sx, sy in {-1, 1})
CornerDirection(cam, sx, sy) ==
  VMul(VAdd(cam.forward,
            VAdd(VMul(cam.right, sx * cam.tanX), VMul(cam.up, sy * cam.tanY))),
       cam.far)

\* C13 (as claimed): in the Raytracer ray00 is the direction through the
\* top-left viewport corner, ray10 top-right, ray01 bottom-left and ray11
\* bottom-right, top being the smaller screen Y; the pixel at (minX, minY)
\* yields unit(ray00) and the pixel at (maxX, maxY) yields unit(ray11).
C13_CornerRays ==
  rayCall.fn = "getRayForPixel" =>
    LET this == rayCall.this
        cam == rayCall.camera
        minX == this.viewport[1]
        maxX == minX + this.viewport[3]
        minY == this.viewport[2]
        maxY == minY + this.viewport[4]
    IN /\ this.ray00 = CornerDirection(cam, -1, 1)
       /\ this.ray10 = CornerDirection(cam, 1, 1)
       /\ this.ray01 = CornerDirection(cam, -1, -1)
       /\ this.ray11 = CornerDirection(cam, 1, -1)
       /\ (rayCall.x = minX /\ rayCall.y = minY) =>
            rayResult.v = unit(this.ray00)
       /\ (rayCall.x = maxX /\ rayCall.y = maxY) =>
            rayResult.v = unit(this.ray11)

\* C13 (amended): that holds of the Raytracer of lightgl.js.  In the
\* Raytracer of main.js ray00 is bottom-left, ray10 bottom-right, ray01
\* top-left and ray11 top-right, and the pixel at (minX, minY) yields
\* unit(ray01), the pixel at (maxX, maxY) unit(ray10).  In both, the pixel at
\* (minX, minY) yields the unit direction through the top-left corner and
\* the pixel at (maxX, maxY) the one through the bottom-right corner.
C13_CornerRaysPerFile ==
  rayCall.fn = "getRayForPixel" =>
    LET this == rayCall.this
        cam == rayCall.camera
        minX == this.viewport[1]
        maxX == minX + this.viewport[3]
        minY == this.viewport[2]
        maxY == minY + this.viewport[4]
        top == IF rayCall.file = "lightgl.js"
               THEN <<this.ray00, this.ray10>> ELSE <<this.ray01, this.ray11>>
        bottom == IF rayCall.file = "lightgl.js"
                  THEN <<this.ray01, this.ray11>> ELSE <<this.ray00, this.ray10>>
    IN /\ top = <<CornerDirection(cam, -1, 1), CornerDirection(cam, 1, 1)>>
       /\ bottom = <<CornerDirection(cam, -1, -1), CornerDirection(cam, 1, -1)>>
       /\ (rayCall.x = minX /\ rayCall.y = minY) => rayResult.v = unit(top[1])
       /\ (rayCall.x = maxX /\ rayCall.y = maxY) =>
            rayResult.v = unit(bottom[2])

C13_Witness ==
  /\ rayCall.fn = "getRayForPixel"
  /\ rayCall.file = "lightgl.js"
  /\ rayCall.x = rayCall.this.viewport[1]
  /\ rayCall.y = rayCall.this.viewport[2]
  /\ rayCall.this.viewport[2] > 0
  /\ rayResult.v = unit(rayCall.this.ray00)
  /\ rayResult.v # unit(rayCall.this.ray01)

\* ----------------------------------------------------------------------
\* C14: for a camera looking down -Z and the viewport [0, 0, 800, 600],
\* getRayForPixel(400, 300) returns the camera's forward vector (0, 0, -1);
\* in general the ray of the centre pixel is the normalised mean of the
\* four corner rays.
C14_CentreRay ==
  (rayCall.fn = "getRayForPixel" /\ rayCall.file = "lightgl.js") =>
    LET this == rayCall.this
        sum == VAdd(VAdd(this.ray00, this.ray10), VAdd(this.ray01, this.ray11))
        mean == <<Quot(sum[1], 4 * Scale), Quot(sum[2], 4 * Scale),
                  Quot(sum[3], 4 * Scale)>>
    IN /\ ( /\ 2 * (rayCall.x - this.viewport[1]) = this.viewport[3]
            /\ 2 * (rayCall.y - this.viewport[2]) = this.viewport[4] )
          => rayResult.v = unit(mean)
       /\ ( /\ rayCall.camera.forward = <<0, 0, 0 - Scale>>
            /\ this.viewport = <<0, 0, 800, 600>>
            /\ rayCall.x = 400 /\ rayCall.y = 300 )
          => rayResult.v = <<0, 0, 0 - Scale>>

C14_Witness ==
  /\ rayCall.fn = "getRayForPixel"
  /\ rayCall.file = "lightgl.js"
  /\ rayCall.camera.forward = <<0, 0, 0 - Scale>>
  /\ rayCall.this.viewport = <<0, 0, 800, 600>>
  /\ rayCall.x = 400 /\ rayCall.y = 300
  /\ rayResult.v = <<0, 0, 0 - Scale>>

\* ----------------------------------------------------------------------
\* C15: the normal's Y component, reconstructed from the stored normalX and
\* normalZ as sqrt(max(0, 1 - normalX^2 - normalZ^2)), is never negative
\* and never NaN; it makes the normal of unit length (to the resolution of
\* the arithmetic) when normalX^2 + normalZ^2 <= 1 and is exactly 0 when
\* normalX^2 + normalZ^2 > 1.
C15_NormalY ==
  rayCall.fn \in {"surface fs_main", "caustics vs_main"} =>
    LET nx == rayCall.info.b
        nz == rayCall.info.a
        ny == rayResult.v[2]
        sum == FMul(nx, nx) + FMul(nz, nz)
        len2 == sum + FMul(ny, ny)
    IN /\ rayResult.v[1] = nx /\ rayResult.v[3] = nz
       /\ ny # NaN /\ ny >= 0
       /\ sum <= Scale => (Scale - 3 <= len2 /\ len2 <= Scale)
       /\ sum > Scale => ny = 0

C15_Witness ==
  /\ rayCall.fn = "caustics vs_main"
  /\ FMul(rayCall.info.b, rayCall.info.b)
       + FMul(rayCall.info.a, rayCall.info.a) > Scale
  /\ rayResult.v[2] = 0

\* ----------------------------------------------------------------------
\* C16 (as claimed): Vector.unit applied to a vector of length 0 fails or
\* produces a vector with NaN components; it does not return an ordinary
\* finite vector.  JavaScript arithmetic does not fail, so the result has a
\* NaN component.
C16_UnitOfZeroIsNaN ==
  (rayCall.fn = "unit" /\ length(rayCall.this) = 0) =>
    \E i \in 1 .. 3 : rayResult.v[i] = NaN

\* C16 (amended): Vector.unit applied to a vector of length 0 returns the
\* finite zero vector (0, 0, 0): every quotient 0 / 0 is NaN, and the Vector
\* constructor stores NaN as 0.
C16_UnitOfZeroIsZero ==
  (rayCall.fn = "unit" /\ length(rayCall.this) = 0) =>
    rayResult = [kind |-> "Vector", v |-> <<0, 0, 0>>]

C16_Witness ==
  /\ rayCall.fn = "unit"
  /\ rayCall.this = <<0, 0, 0>>
  /\ rayResult.kind = "Vector"

\* ----------------------------------------------------------------------
\* C17: when the rendering backend is unavailable (navigator.gpu missing, or
\* requestAdapter returning nothing), init shows a message and returns
\* having created no device, texture, buffer or pipeline, registered no
\* resize listener and requested no animation frame; render is never
\* executed in that run.
C17_NoPartialInit ==
  backend \in {"no gpu", "no adapter"} =>
    /\ pc = "returned"
    /\ loading = (IF backend = "no gpu" THEN "WebGPU not supported."
                                        ELSE "No WebGPU adapter found.")
    /\ created = {}
    /\ listeners = {}
    /\ frameRequests = 0
    /\ renders = 0
    /\ ~ ENABLED NextPage

C17_Witness ==
  /\ backend = "no adapter"
  /\ pc = "returned"
  /\ loading = "No WebGPU adapter found."

C19_AngleXClamped ==
  /\ 0 - 89999 <= angleX /\ angleX <= 89999
  /\ (drag.mode = "OrbitCamera" /\ drag.from - drag.dy < 0 - 89999)
       => angleX = 0 - 89999

C19_Witness ==
  /\ drag.mode = "OrbitCamera"
  /\ drag.from = 0 - 89999
  /\ drag.dy > 0
  /\ angleX = 0 - 89999

C21_DragLifecycle ==
  [][ /\ drag'.event = "up" => drag'.mode = "Idle"
      /\ (drag'.mode # "Idle" /\ drag'.mode # drag.mode)
           => drag'.event = "down" ]_vars

C21_Witness ==
  /\ drag.mode = "Idle"
  /\ "event" \in DOMAIN drag
  /\ drag.event = "up"
  /\ drag.was = "OrbitCamera"

\* the half-line from eye along ray passes within radius of center
RayMeetsSphere(eye, ray, center, radius) ==
  LET along == Max(0, VDot(VSub(center, eye), ray))
      nearest == VAdd(eye, VMul(ray, along))
  IN length(VSub(nearest, center)) < radius

\* the drag state the priority rule gives to the pointer-down just handled
PriorityMode ==
  LET pointOnPlane == WaterPlane(drag.eye, drag.ray)
  IN IF RayMeetsSphere(drag.eye, drag.ray, drag.center, drag.radius)
     THEN "MoveSphere"
     ELSE IF pointOnPlane.kind = "point" /\ InPool(pointOnPlane.p)
     THEN "AddRipple"
     ELSE "OrbitCamera"

\* ----------------------------------------------------------------------
\* C22: on pointer-down the drag state is MoveSphere if the pick ray hits
\* the sphere, otherwise AddRipple with exactly one drop injected if the ray
\* meets the water plane at |x| < 1 and |z| < 1, otherwise OrbitCamera.
C22_PointerDownPriority ==
  ("event" \in DOMAIN drag /\ drag.event = "down") =>
    /\ drag.mode = PriorityMode
    /\ Len(hist) - drag.before = (IF drag.mode = "AddRipple" THEN 1 ELSE 0)

\* ----------------------------------------------------------------------
\* C23: every grid operation changes only its own channels of a cell and
\* copies the others from the buffer it reads: Drop and SphereCoupling
\* change the height only, Propagate the height and the velocity only,
\* UpdateNormals the two normal components only.
C23_OwnChannelsOnly ==
  \A k \in 1 .. Len(hist) : \A c \in Cells :
    LET old == hist[k].in[c]
        new == hist[k].out[c]
    IN /\ hist[k].op \in {"Drop", "Sphere"} =>
            new.g = old.g /\ new.b = old.b /\ new.a = old.a
       /\ hist[k].op = "Update" => new.b = old.b /\ new.a = old.a
       /\ hist[k].op = "Normal" => new.r = old.r /\ new.g = old.g

C23_Witness ==
  \E k \in 1 .. Len(hist) :
    /\ hist[k].op = "Normal"
    /\ \E c \in Cells :
         /\ hist[k].in[c].r # 0
         /\ hist[k].in[c].g # 0
         /\ hist[k].out[c].g = hist[k].in[c].g
         /\ hist[k].out[c].b # hist[k].in[c].b

\* ----------------------------------------------------------------------
\* C24: updateCaustics reads the grid buffer that is current when it is
\* called and writes the caustics texture only: the contents of both grid
\* buffers and the current/scratch designation are the same after it.
C24_CausticsRefresh ==
  [][ calls' = Append(calls, <<"updateCaustics">>) =>
        /\ caustics'.read = textureA
        /\ caustics'.input = texels[textureA]
        /\ texels' = texels
        /\ textureA' = textureA
        /\ textureB' = textureB ]_vars

C24_Witness ==
  /\ calls # << >>
  /\ calls[Len(calls)] = <<"updateCaustics">>
  /\ caustics.read = textureA
  /\ \E c \in Cells : texels[textureA][c].r # 0
  /\ \E c \in Cells : texels[textureB][c].r # 0

\* ----------------------------------------------------------------------
\* C25: renderSurface samples the grid buffer that is current when it is
\* called, the one the latest grid operation rendered: never the scratch
\* buffer and never a binding fixed at construction.
C25_SurfaceReadsCurrent ==
  surface.read # "none" =>
    IF surface.after = 0
    THEN surface.read = "tex1" /\ surface.input = ZeroGrid
    ELSE LET last == hist[surface.after]
         IN /\ surface.read = last.dst
            /\ surface.read # last.src
            /\ surface.input = last.out

C25_Witness ==
  /\ surface.read = "tex2"
  /\ surface.after = Len(hist)
  /\ Len(hist) >= 3
  /\ textureA = "tex2"
  /\ \E c \in Cells : surface.input[c].g # 0

\* the cells where a grid of numbers takes its largest value
ArgMax(f) == { c \in Cells : \A d \in Cells : f[d] <= f[c] }

\* ----------------------------------------------------------------------
\* C26: the world-to-UV mapping of the drop shader and the UV-to-world
\* mapping of volumeInSphere are inverses of each other, UV (0, 0) being
\* world (-1, -1); a drop at (x, z) and the sphere at (x, 0, z) have their
\* largest effect at the same cell: where the drop raises the water most,
\* the sphere displaces the largest volume.
C26_UVWorldInverse ==
  rayCall.fn = "uv" =>
    /\ UVToWorld(rayResult.uv[1]) = rayCall.x
    /\ UVToWorld(rayResult.uv[2]) = rayCall.z
    /\ WorldToUV(UVToWorld(rayResult.uv[1])) = rayResult.uv[1]
    /\ (rayResult.uv = <<0, 0>>) <=>
         (rayCall.x = 0 - Scale /\ rayCall.z = 0 - Scale)
    /\ ArgMax(rayResult.drop) \subseteq ArgMax(rayResult.sphere)

C26_Witness ==
  /\ rayCall.fn = "uv"
  /\ rayCall.x = 0 - Scale
  /\ rayCall.z = Scale
  /\ ArgMax(rayResult.drop) = { <<0, GridN - 1>> }
  /\ ArgMax(rayResult.sphere) = { <<0, GridN - 1>> }
  /\ rayResult.drop[<<0, GridN - 1>>] > 0

\* ----------------------------------------------------------------------
\* C27: a flat still grid (the same height everywhere, velocity zero) is a
\* fixed point of Propagate, at the edge cells as everywhere else.
C27_FlatFixedPoint ==
  rayCall.fn = "Update" => rayResult.out = rayCall.in

C27_Witness ==
  /\ rayCall.fn = "Update"
  /\ rayCall.h > 0
  /\ \A c \in Cells : rayResult.out[c].r = rayCall.h /\ rayResult.out[c].g = 0

\* ----------------------------------------------------------------------
\* C28: for every centre height and every dy in (0, 1] the value of
\* volumeInSphere lies in [0, 0.2 * dy], so the height of a cell changes by
\* at most 0.2 in one SphereCoupling.
C28_VolumeBounded ==
  rayCall.fn = "volumeInSphere" =>
    /\ 0 <= rayResult.old /\ rayResult.old <= RoundDiv(2 * rayCall.dyOld, 10)
    /\ 0 <= rayResult.new /\ rayResult.new <= RoundDiv(2 * rayCall.dyNew, 10)
    /\ rayResult.old - rayResult.new <= RoundDiv(2 * Scale, 10)
    /\ rayResult.new - rayResult.old <= RoundDiv(2 * Scale, 10)

C28_Witness ==
  /\ rayCall.fn = "volumeInSphere"
  /\ rayCall.cyOld = Half /\ rayCall.dyOld = Scale
  /\ rayCall.cyNew = 0 /\ rayCall.dyNew = 1
  /\ rayResult.old = RoundDiv(2 * Scale, 10)
  /\ rayResult.new = 0

\* ----------------------------------------------------------------------
\* C29: after any sequence of results has been merged into new HitTest(),
\* t is the smallest strictly positive t among them (Number.MAX_VALUE if
\* there is none) and hit and normal are those of the first result with
\* that t; a result with t <= 0 or with a t that is not strictly smaller
\* never replaces the current one, and merging a result a second time
\* changes nothing.
C29_MergeKeepsNearest ==
  rayCall.fn = "mergeWith" =>
    LET merged == rayCall.merged
        positive == { k \in 1 .. Len(merged) : merged[k].t > 0 }
    IN /\ IF positive = {}
          THEN rayResult = NewHitTest
          ELSE LET first == CHOOSE k \in positive :
                              \A j \in positive :
                                \/ merged[k].t < merged[j].t
                                \/ (merged[k].t = merged[j].t /\ k <= j)
               IN rayResult = merged[first]
       /\ \A k \in 1 .. Len(merged) :
            mergeWith(rayResult, merged[k]) = rayResult

C29_Witness ==
  /\ rayCall.fn = "mergeWith"
  /\ Len(rayCall.merged) = 3
  /\ rayCall.merged[1].t = Half
  /\ rayCall.merged[2].t = 0 - Scale
  /\ rayCall.merged[3].t = Half
  /\ rayCall.merged[3].hit # rayCall.merged[1].hit
  /\ rayResult = rayCall.merged[1]

\* ----------------------------------------------------------------------
\* C30: whatever the order of resize events and animation frames after the
\* asynchronous init, render never runs before the pool, the uniform buffer
\* and the depth texture exist, and every render draws with the depth
\* texture created by the latest resize, whose size is the canvas's size.
C30_RenderAfterInit ==
  renders > 0 =>
    /\ {"pool", "uniformBuffer", "depthTexture"} \subseteq frame.with
    /\ frame.canvas = canvas
    /\ frame.depth = depthTexture
    /\ frame.depth.id = depthTextures
    /\ frame.depth.size = canvas

C30_Witness ==
  /\ renders >= 4
  /\ depthTextures = 2
  /\ ratio = 3
  /\ canvas = <<61, 61>>
  /\ frame.depth.size = <<61, 61>>
  /\ frame.depth.id = 2

====
